---- MODULE Spec2Model ----
(***************************************************************************)
(* Model of the brainterpreter pipeline: the compiler's scope table        *)
(* (src/src/compiler/locals.rs), the chunk builder                         *)
(* (src/src/compiler/chunk.rs), the compiler (src/src/compiler/mod.rs)     *)
(* and the stack virtual machine (src/src/vm/mod.rs, vm/call.rs,           *)
(* vm/stack.rs, vm/native.rs, value.rs).                                   *)
(*                                                                         *)
(* Conventions.                                                            *)
(*  - Addresses, indices and offsets are 0-based as in the source; the     *)
(*    element at address a of a sequence s is s[a + 1].                    *)
(*  - A String is the sequence of its characters' code points              *)
(*    ("a" is <<97>>), so that formatting, concatenation, indexing and     *)
(*    as_char are computed and not assumed.                                *)
(*  - Numbers are the integers among the f64 values.  An arithmetic        *)
(*    result that is no integer leaves the modelled domain (status         *)
(*    "outside").                                                          *)
(*  - Option<T> is a sequence of length 0 or 1.                            *)
(*  - A usize that wrapped below zero (release build) is kept as the       *)
(*    negative integer congruent to it; its `as i32` cast is that integer. *)
(***************************************************************************)
EXTENDS Integers, Sequences, FiniteSets, TLC

VARIABLES
    prog,       \* index of the source program being run (Spec)
    build,      \* "debug" | "release": overflow checks on or off
    script,     \* Option<Chunk>: the compiled script
    stack,      \* Vm.stack
    frames,     \* Vm.frames
    globals,    \* Vm.globals
    heap,       \* storage of the Rc<RefCell<Vec<ValueType>>> arrays
    out,        \* lines written to Vm.out
    status,     \* position of run_script
    err,        \* the VmRuntimeError returned, "" when none
    calls,      \* history: per frame, the stack as it was at its Call
    last,       \* history: what the last step executed
    cs,         \* Compiler under construction (SpecLocals)
    scopes,     \* history: per open scope, the Locals at its begin_scope
    lexer,      \* Lexer (SpecLexer)
    parser,     \* Parser (SpecParser, SpecProgram)
    the_program \* `program` of parse_program: the Program it builds (SpecProgram)

vars == <<prog, build, script, stack, frames, globals, heap, out, status, err,
          calls, last, cs, scopes, lexer, parser, the_program>>

vmVars == <<prog, build, script, stack, frames, globals, heap, out, status,
            err, calls, last>>

compilerVars == <<cs, scopes>>

frontVars == <<lexer, parser, the_program>>

vmVars_but_last == <<prog, build, script, stack, frames, globals, heap, out,
                     status, err, calls, lexer, parser, the_program>>

(***************************************************************************)
(* Strings                                                                 *)
(***************************************************************************)

RECURSIVE NatToString(_)
NatToString(n) ==
    IF n < 10 THEN <<48 + n>> ELSE NatToString(n \div 10) \o <<48 + (n % 10)>>

\* f64::to_string on an integral value: no fraction, "-" for negatives.
NumToString(n) == IF n < 0 THEN <<45>> \o NatToString(-n) ELSE NatToString(n)

BoolToString(b) == IF b THEN <<116, 114, 117, 101>> ELSE <<102, 97, 108, 115, 101>>

\* Number of bytes of the UTF-8 encoding of a character.
utf8_len(c) == IF c < 128 THEN 1 ELSE IF c < 2048 THEN 2 ELSE IF c < 65536 THEN 3 ELSE 4

RECURSIVE str_len(_)
\* String::len: the length in bytes.
str_len(s) == IF s = <<>> THEN 0 ELSE utf8_len(Head(s)) + str_len(Tail(s))

(***************************************************************************)
(* Values (value.rs)                                                       *)
(***************************************************************************)

Nil == [t |-> "Nil"]
Bool(b) == [t |-> "Bool", b |-> b]
Number(n) == [t |-> "Number", n |-> n]
Text(s) == [t |-> "Text", s |-> s]
ArrayRef(r) == [t |-> "ArrayRef", ref |-> r]
Function(name, chunk, arity) ==
    [t |-> "Function", name |-> name, chunk |-> chunk, arity |-> arity]
NativeFunction(name, arity) ==
    [t |-> "NativeFunction", name |-> name, arity |-> arity]

\* "$main$"
MainName == <<36, 109, 97, 105, 110, 36>>
FunctionScript(chunk) == Function(MainName, chunk, 0)

\* #[derive(PartialEq)] on ValueType, with the hand-written impls for
\* Function and NativeFunction, which compare the names only.
ValueEq(a, b) ==
    IF a.t # b.t THEN FALSE
    ELSE IF a.t \in {"Function", "NativeFunction"} THEN a.name = b.name
    ELSE a = b

(***************************************************************************)
(* Instructions and chunks (vm/opcode.rs, compiler/chunk.rs)               *)
(***************************************************************************)

Op0(name) == [op |-> name]
Op1(name, arg) == [op |-> name, arg |-> arg]

RECURSIVE find_constant(_, _, _)
find_constant(constants, value, i) ==
    IF i > Len(constants) THEN <<>>
    ELSE IF ValueEq(constants[i], value) THEN <<i - 1>>
    ELSE find_constant(constants, value, i + 1)

builder_add_constant_append(constants, value) ==
    [idx |-> Len(constants), constants |-> Append(constants, value)]

\* ChunkBuilder::add_constant: the index of the first equal entry, else append.
builder_add_constant(constants, value) ==
    LET found == find_constant(constants, value, 1) IN
    IF found # <<>> THEN [idx |-> found[1], constants |-> constants]
    ELSE [idx |-> Len(constants), constants |-> Append(constants, value)]

\* Chunk::add_constant, which the compiler calls: append.
add_constant(constants, value) ==
    [idx |-> Len(constants), constants |-> Append(constants, value)]

IsJump(op) == op.op \in {"Jump", "JumpIfFalse"}

\* ChunkBuilder::patch_jump; the op at the address keeps its kind.
patch_jump(ops, address, offset) ==
    [ops EXCEPT ![address + 1] = [op |-> @.op, arg |-> offset]]

patch_jump_to_off_by_one(ops, jump_address, target_address) ==
    patch_jump(ops, jump_address, (target_address + 1) - jump_address)

\* ChunkBuilder::patch_jump_to
patch_jump_to(ops, jump_address, target_address) ==
    patch_jump(ops, jump_address, target_address - jump_address)

(***************************************************************************)
(* Locals (compiler/locals.rs)                                             *)
(***************************************************************************)

LocalsDefault == [locals |-> <<>>, depth |-> 0]

RECURSIVE resolve_from(_, _, _)
resolve_from(locals, name, i) ==
    IF i = 0 THEN <<>>
    ELSE IF locals[i].name = name /\ locals[i].initialized THEN <<i - 1>>
    ELSE resolve_from(locals, name, i - 1)

RECURSIVE resolve_forward(_, _, _)
resolve_forward(locals, name, i) ==
    IF i > Len(locals) THEN <<>>
    ELSE IF locals[i].name = name /\ locals[i].initialized THEN <<i - 1>>
    ELSE resolve_forward(locals, name, i + 1)

resolve_local_outermost(L, name) == resolve_forward(L.locals, name, 1)

\* Locals::resolve_local
resolve_local(L, name) == resolve_from(L.locals, name, Len(L.locals))

check_local_any_depth(L, name) == resolve_local(L, name) # <<>>

\* Locals::check_local_on_depth
check_local_on_depth(L, name, depth) ==
    LET r == resolve_local(L, name) IN
    r # <<>> /\ L.locals[r[1] + 1].depth = depth

\* Locals::check_local
check_local(L, name) == check_local_on_depth(L, name, L.depth)

\* Locals::add_local
add_local(L, name) ==
    [L EXCEPT !.locals =
        Append(@, [name |-> name, depth |-> L.depth, initialized |-> FALSE])]

\* Locals::begin_scope
locals_begin_scope(L) == [L EXCEPT !.depth = @ + 1]

RECURSIVE count_in_scope(_, _, _)
\* locals.iter().rev().take_while(|local| local.depth == self.depth).count()
count_in_scope(locals, depth, i) ==
    IF i = 0 \/ locals[i].depth # depth THEN 0
    ELSE 1 + count_in_scope(locals, depth, i - 1)

locals_in_scope_all_deeper(L) ==
    Cardinality({i \in 1..Len(L.locals) : L.locals[i].depth >= L.depth - 1})

\* The count Locals::end_scope returns.
locals_in_scope(L) == count_in_scope(L.locals, L.depth, Len(L.locals))

\* Locals::end_scope, the state it leaves.
locals_end_scope(L) ==
    [locals |-> SubSeq(L.locals, 1, Len(L.locals) - locals_in_scope(L)),
     depth |-> L.depth - 1]

\* Locals::initialize_last_local
initialize_last_local(L) ==
    [L EXCEPT !.locals[Len(L.locals)].initialized = TRUE]

\* Locals::last_index
locals_last_index(L) == Len(L.locals) - 1

(***************************************************************************)
(* Compiler (compiler/mod.rs)                                              *)
(***************************************************************************)

\* Compiler::default(), for a build with overflow checks on or off.
\* CompilationResult: Ok(()), or Err of a CompileError; a panic of the
\* compiler is kept in the same field.
CompileOk == [e |-> "none"]
CompileError(e) == [e |-> e]
VariableAlreadyDeclared(name) == [e |-> "VariableAlreadyDeclared", name |-> name]

CompilerDefault(b) ==
    [ops |-> <<>>, constants |-> <<>>, locals |-> LocalsDefault,
     err |-> CompileOk, build |-> b]

Failed(c) == c.err.e # "none"

Fail(c, e) == IF Failed(c) THEN c ELSE [c EXCEPT !.err = e]

\* Chunk::add_op.  A compiler that has failed has returned (the `?` of the
\* callers) and emits nothing more.
add_op(c, op) == IF Failed(c) THEN c ELSE [c EXCEPT !.ops = Append(@, op)]

\* Chunk::last_index, `self.ops.len() - 1` on a usize.
last_index(c) == Len(c.ops) - 1

\* Whether `self.ops.len() - 1` overflows; a build with overflow checks panics.
last_index_overflows(c) == Len(c.ops) = 0

\* Chunk::patch_jump_to_last
patch_jump_to_last(c, jump_address) ==
    IF Failed(c) THEN c
    ELSE [c EXCEPT !.ops = patch_jump_to(@, jump_address, last_index(c))]

\* Op::StoreGlobal / Op::LoadGlobal for a name.  The instruction the virtual
\* machine executes names the variable by the index of a Text constant of
\* the chunk, which the chunk builder adds once.
global_op(c, kind, name) ==
    IF Failed(c) THEN c
    ELSE LET r == builder_add_constant(c.constants, Text(name)) IN
         add_op([c EXCEPT !.constants = r.constants], Op1(kind, r.idx))

\* Compiler::begin_scope
begin_scope(c) ==
    IF Failed(c) THEN c ELSE [c EXCEPT !.locals = locals_begin_scope(@)]

RECURSIVE add_pops(_, _)
add_pops(c, n) == IF n = 0 THEN c ELSE add_pops(add_op(c, Op0("Pop")), n - 1)

\* Compiler::end_scope: one Pop per local of the scope that ends.
end_scope(c) ==
    IF Failed(c) THEN c
    ELSE add_pops([c EXCEPT !.locals = locals_end_scope(@)],
                  locals_in_scope(c.locals))

\* Compiler::load_variable
load_variable(c, name) ==
    IF Failed(c) THEN c
    ELSE LET local == resolve_local(c.locals, name) IN
         IF local # <<>> THEN add_op(c, Op1("LoadLocal", local[1]))
         ELSE global_op(c, "LoadGlobal", name)

\* Compiler::assign_variable_from_stack
assign_variable_from_stack(c, name) ==
    IF Failed(c) THEN c
    ELSE LET local == IF c.locals.depth > 0 THEN resolve_local(c.locals, name)
                      ELSE <<>> IN
         IF local # <<>>
         THEN add_op(add_op(c, Op1("StoreLocal", local[1])), Op0("Pop"))
         ELSE global_op(c, "StoreGlobal", name)

\* Compiler::declare_variable (a parameter of a function)
declare_variable(c, name) ==
    IF Failed(c) THEN c
    ELSE IF c.locals.depth > 0
    THEN IF check_local(c.locals, name)
         THEN Fail(c, VariableAlreadyDeclared(name))
         ELSE [c EXCEPT !.locals = initialize_last_local(add_local(@, name))]
    ELSE c

RECURSIVE declare_variables(_, _, _)
declare_variables(c, params, i) ==
    IF i > Len(params) THEN c
    ELSE declare_variables(declare_variable(c, params[i]), params, i + 1)

\* The lowering of a binary operator once both operands are emitted.
binary_operator_ops(c, operator) ==
    CASE operator = "Add" -> add_op(c, Op0("Add"))
      [] operator = "Sub" -> add_op(c, Op0("Sub"))
      [] operator = "Mul" -> add_op(c, Op0("Mul"))
      [] operator = "Div" -> add_op(c, Op0("Div"))
      [] operator = "Equal" -> add_op(c, Op0("Cmp"))
      [] operator = "NotEqual" -> add_op(add_op(c, Op0("Cmp")), Op0("Not"))
      [] operator = "Less" -> add_op(add_op(c, Op0("Ge")), Op0("Not"))
      [] operator = "Greater" -> add_op(add_op(c, Op0("Le")), Op0("Not"))
      [] operator = "LessOrEqual" -> add_op(c, Op0("Le"))
      [] operator = "GreaterOrEqual" -> add_op(c, Op0("Ge"))
      [] operator = "Assign" -> c

RECURSIVE expression(_, _)
RECURSIVE statement(_, _)
RECURSIVE expressions(_, _, _)
RECURSIVE statements(_, _, _)

expressions(c, list, i) ==
    IF i > Len(list) THEN c ELSE expressions(expression(c, list[i]), list, i + 1)

statements(c, list, i) ==
    IF i > Len(list) THEN c ELSE statements(statement(c, list[i]), list, i + 1)

\* Compiler::compile_program: the compiler after every statement.
compile_program(c, program) == statements(c, program, 1)

\* The Chunk of a compiler.
chunk_of(c) == [ops |-> c.ops, constants |-> c.constants]

binary_operation_lhs_first(c, ast) ==
    binary_operator_ops(expression(expression(c, ast.a), ast.b), ast.op)

\* Expression::BinaryOperation: the right operand, the left operand, the op.
binary_operation(c, ast) ==
    binary_operator_ops(expression(expression(c, ast.b), ast.a), ast.op)

\* Compiler::assign_variable
assign_variable(c, name, expr) ==
    IF Failed(c) THEN c
    ELSE LET local == IF c.locals.depth > 0 THEN resolve_local(c.locals, name)
                      ELSE <<>> IN
         IF local # <<>>
         THEN add_op(add_op(expression(c, expr), Op1("StoreLocal", local[1])),
                     Op0("Pop"))
         ELSE global_op(expression(c, expr), "StoreGlobal", name)

\* Compiler::assign_index
assign_index(c, array, index, value) ==
    IF Failed(c) THEN c
    ELSE IF array.k = "Variable"
    THEN assign_variable_from_stack(
             add_op(expression(load_variable(expression(c, index), array.name),
                               value),
                    Op0("StoreIndex")),
             array.name)
    ELSE Fail(c, CompileError("UnsupportedAssignmentTarget"))

\* Compiler::assign
assign(c, target, value) ==
    IF Failed(c) THEN c
    ELSE CASE target.k = "Variable" -> assign_variable(c, target.name, value)
           [] target.k = "Index" ->
                assign_index(c, target.array, target.index, value)
           [] OTHER -> Fail(c, CompileError("UnsupportedAssignmentTarget"))

\* Compiler::initialize_array
initialize_array(c, initial, size) ==
    add_op(expression(expression(c, size), initial), Op0("Array"))

\* Compiler::function_call
function_call(c, name, args) ==
    add_op(expressions(global_op(c, "LoadGlobal", name), args, 1),
           Op1("Call", Len(args)))

variable_declaration_initialized_first(c, name, value) ==
    IF Failed(c) THEN c
    ELSE IF c.locals.depth > 0
    THEN IF check_local(c.locals, name)
         THEN Fail(c, VariableAlreadyDeclared(name))
         ELSE LET c1 == [c EXCEPT !.locals =
                            initialize_last_local(add_local(@, name))]
                  c2 == IF value # <<>> THEN expression(c1, value[1])
                        ELSE add_op(c1, Op0("Nil"))
              IN  IF Failed(c2) THEN c2
                  ELSE add_op(c2, Op1("StoreLocal", locals_last_index(c2.locals)))
    ELSE global_op(IF value # <<>> THEN expression(c, value[1])
                   ELSE add_op(c, Op0("Nil")),
                   "StoreGlobal", name)

\* Compiler::variable_declaration
variable_declaration(c, name, value) ==
    IF Failed(c) THEN c
    ELSE IF c.locals.depth > 0
    THEN IF check_local(c.locals, name)
         THEN Fail(c, VariableAlreadyDeclared(name))
         ELSE LET c1 == [c EXCEPT !.locals = add_local(@, name)]
                  c2 == IF value # <<>> THEN expression(c1, value[1])
                        ELSE add_op(c1, Op0("Nil"))
              IN  IF Failed(c2) THEN c2
                  ELSE add_op([c2 EXCEPT !.locals = initialize_last_local(@)],
                              Op1("StoreLocal", locals_last_index(c2.locals)))
    ELSE global_op(IF value # <<>> THEN expression(c, value[1])
                   ELSE add_op(c, Op0("Nil")),
                   "StoreGlobal", name)

\* Compiler::block
block(c, list) == end_scope(statements(begin_scope(c), list, 1))

\* Compiler::if_statement
if_statement(c, condition, then, otherwise) ==
    LET c1 == expression(c, condition)
        then_jump == Len(c1.ops)
        c2 == statement(add_op(c1, Op1("JumpIfFalse", 0)), then)
    IN  IF Failed(c2) THEN c2
        ELSE IF otherwise # <<>>
        THEN LET else_jump == Len(c2.ops)
                 c3 == add_op(c2, Op1("Jump", 0))
                 jump_offset == last_index(c3) - then_jump
                 c4 == [c3 EXCEPT !.ops = patch_jump(@, then_jump, jump_offset)]
             IN  patch_jump_to_last(statement(c4, otherwise[1]), else_jump)
        ELSE patch_jump_to_last(c2, then_jump)

\* Compiler::while_statement
while_statement(c, condition, body) ==
    IF Failed(c) THEN c
    ELSE IF last_index_overflows(c) /\ c.build = "debug" THEN Fail(c, CompileError("panic"))
    ELSE LET loop_start == last_index(c)
             c1 == expression(c, condition)
             exit_jump == Len(c1.ops)
             c2 == statement(add_op(c1, Op1("JumpIfFalse", 0)), body)
             loop_jump == Len(c2.ops)
             c3 == add_op(c2, Op1("Jump", 0))
         IN  IF Failed(c3) THEN c3
             ELSE patch_jump_to_last(
                      [c3 EXCEPT !.ops = patch_jump_to(@, loop_jump, loop_start)],
                      exit_jump)

function_declaration_without_nil(c, name, params, body) ==
    IF Failed(c) THEN c
    ELSE LET f0 == declare_variables(begin_scope(CompilerDefault(c.build)),
                                     params, 1)
             f1 == compile_program(f0, body)
             f2 == add_op(f1, Op0("Return"))
         IN  IF Failed(f2) THEN Fail(c, f2.err)
             ELSE LET function == Function(name, chunk_of(f2), Len(params))
                      r == add_constant(c.constants, function)
                  IN  global_op(add_op([c EXCEPT !.constants = r.constants],
                                       Op1("Const", r.idx)),
                                "StoreGlobal", name)

\* Compiler::function_declaration
function_declaration(c, name, params, body) ==
    IF Failed(c) THEN c
    ELSE LET f0 == declare_variables(begin_scope(CompilerDefault(c.build)),
                                     params, 1)
             f1 == compile_program(f0, body)
             f2 == add_op(add_op(f1, Op0("Nil")), Op0("Return"))
         IN  IF Failed(f2) THEN Fail(c, f2.err)
             ELSE LET function == Function(name, chunk_of(f2), Len(params))
                      r == add_constant(c.constants, function)
                  IN  global_op(add_op([c EXCEPT !.constants = r.constants],
                                       Op1("Const", r.idx)),
                                "StoreGlobal", name)

\* Compiler::return_statement
return_statement(c, expr) == add_op(expression(c, expr), Op0("Return"))

\* Compiler::expression
expression(c, ast) ==
    IF Failed(c) THEN c
    ELSE CASE ast.k = "Nil" -> add_op(c, Op0("Nil"))
           [] ast.k = "NumberLiteral" -> add_op(c, Op1("ConstFloat", ast.n))
           [] ast.k = "StringLiteral" ->
                LET r == add_constant(c.constants, Text(ast.s)) IN
                add_op([c EXCEPT !.constants = r.constants], Op1("Const", r.idx))
           [] ast.k = "BooleanLiteral" -> add_op(c, Op1("ConstBool", ast.b))
           [] ast.k = "AssignVariable" -> assign_variable(c, ast.name, ast.expr)
           [] ast.k = "Assign" -> assign(c, ast.target, ast.value)
           [] ast.k = "Array" -> initialize_array(c, ast.initial, ast.size)
           [] ast.k = "BinaryOperation" -> binary_operation(c, ast)
           [] ast.k = "Variable" -> load_variable(c, ast.name)
           [] ast.k = "Call" -> function_call(c, ast.name, ast.args)
           [] ast.k = "UnaryOperation" /\ ast.op = "Negate" ->
                add_op(add_op(expression(c, ast.e), Op1("ConstFloat", 0)),
                       Op0("Sub"))
           [] ast.k = "UnaryOperation" /\ ast.op = "Not" ->
                add_op(expression(c, ast.e), Op0("Not"))
           [] ast.k = "Cmp" ->
                add_op(expression(expression(c, ast.b), ast.a), Op0("Cmp"))
           [] ast.k = "Index" ->
                add_op(expression(expression(c, ast.index), ast.array),
                       Op0("LoadIndex"))

\* Compiler::statement
statement(c, ast) ==
    IF Failed(c) THEN c
    ELSE CASE ast.k = "Expression" -> expression(c, ast.e)
           [] ast.k = "Print" -> add_op(expression(c, ast.e), Op0("Print"))
           [] ast.k = "Variable" -> variable_declaration(c, ast.name, ast.value)
           [] ast.k = "Block" -> block(c, ast.statements)
           [] ast.k = "If" -> if_statement(c, ast.condition, ast.then, ast.otherwise)
           [] ast.k = "While" -> while_statement(c, ast.condition, ast.body)
           [] ast.k = "Function" ->
                function_declaration(c, ast.name, ast.params, ast.body)
           [] ast.k = "Return" -> return_statement(c, ast.e)

\* The Result of Compiler::compile_script for the compiler it ran: the error,
\* or Function::script of the chunk.
compile_result(c) ==
    IF Failed(c) THEN [err |-> c.err, script |-> <<>>]
    ELSE [err |-> CompileOk, script |-> <<FunctionScript(chunk_of(c))>>]

\* Compiler::compile_script
compile_script(b, program) ==
    compile_result(compile_program(CompilerDefault(b), program))

(***************************************************************************)
(* Indexing (value.rs)                                                     *)
(***************************************************************************)

NoError == [e |-> "none"]
VmError(e) == [e |-> e]
ArrayAccessError(te) == [e |-> "ArrayAccessError", te |-> te]
IndexOutOfBounds(index, size) ==
    [e |-> "ArrayAccessError", te |-> "IndexOutOfBounds",
     index |-> index, size |-> size]
UnsupportedArrayValueType(value) ==
    [e |-> "ArrayAccessError", te |-> "UnsupportedArrayValueType", value |-> value]
Panic(what) == [e |-> "panic", what |-> what]

\* ValueType::len: Ok(length) as <<length>>, an error as <<>>.
value_len(heap_, v) ==
    CASE v.t = "Text" -> <<str_len(v.s)>>
      [] v.t = "Array" -> <<Len(v.items)>>
      [] v.t = "ArrayRef" -> <<Len(heap_[v.ref])>>
      [] OTHER -> <<>>

\* ValueType::index followed by ValueType::index_in_bounds on an indexable
\* value: [ok, idx] or [ok, error].
checked_index(heap_, v, index) ==
    IF index.t # "Number" THEN [ok |-> FALSE, error |-> ArrayAccessError("InvalidIndexType")]
    ELSE IF index.n < 0 THEN [ok |-> FALSE, error |-> ArrayAccessError("IncorrectIndex")]
    ELSE IF index.n >= value_len(heap_, v)[1]
         THEN [ok |-> FALSE, error |-> IndexOutOfBounds(index.n, value_len(heap_, v)[1])]
    ELSE [ok |-> TRUE, idx |-> index.n]

\* ValueType::get: [error, value]
value_get(heap_, v, index) ==
    IF v.t \notin {"Text", "Array", "ArrayRef"}
    THEN [error |-> ArrayAccessError("UnsupportedArrayType")]
    ELSE LET i == checked_index(heap_, v, index) IN
         IF ~i.ok THEN [error |-> i.error]
         ELSE CASE v.t = "Text" ->
                     \* s.chars().nth(idx).unwrap()
                     IF i.idx < Len(v.s)
                     THEN [error |-> NoError, value |-> Text(<<v.s[i.idx + 1]>>)]
                     ELSE [error |-> Panic("unwrap on None")]
                [] v.t = "Array" ->
                     [error |-> NoError, value |-> v.items[i.idx + 1]]
                [] v.t = "ArrayRef" ->
                     [error |-> NoError, value |-> heap_[v.ref][i.idx + 1]]

\* str::is_char_boundary
is_char_boundary(s, b) == \E k \in 0..Len(s) : str_len(SubSeq(s, 1, k)) = b

\* The number of characters of s that lie before byte b, a char boundary.
chars_before(s, b) == CHOOSE k \in 0..Len(s) : str_len(SubSeq(s, 1, k)) = b

value_set_array_copy(heap_, v, index, value) ==
    LET i == checked_index(heap_, v, index) IN
    IF ~i.ok THEN [error |-> i.error, heap |-> heap_]
    ELSE [error |-> NoError,
          value |-> ArrayRef(Len(heap_) + 1),
          heap |-> Append(heap_, [heap_[v.ref] EXCEPT ![i.idx + 1] = value])]

\* The (ValueType::ArrayRef(arr), v) arm of ValueType::set.
value_set_array_ref(heap_, v, index, value) ==
    LET i == checked_index(heap_, v, index) IN
    IF ~i.ok THEN [error |-> i.error, heap |-> heap_]
    ELSE [error |-> NoError, value |-> v,
          heap |-> [heap_ EXCEPT ![v.ref][i.idx + 1] = value]]

value_set_bounds_first(heap_, v, index, value) ==
    CASE v.t = "Text" /\ value.t = "Text" ->
           LET i == checked_index(heap_, v, index) IN
           IF ~i.ok THEN [error |-> i.error, heap |-> heap_]
           \* s.replace_range(idx..idx + 1, v): a range of bytes
           ELSE IF ~is_char_boundary(v.s, i.idx) \/ ~is_char_boundary(v.s, i.idx + 1)
                THEN [error |-> Panic("not a char boundary"), heap |-> heap_]
           ELSE [error |-> NoError,
                 value |-> Text(SubSeq(v.s, 1, chars_before(v.s, i.idx))
                                \o value.s
                                \o SubSeq(v.s, chars_before(v.s, i.idx + 1) + 1,
                                          Len(v.s))),
                 heap |-> heap_]
      [] v.t = "Array" ->
           LET i == checked_index(heap_, v, index) IN
           IF ~i.ok THEN [error |-> i.error, heap |-> heap_]
           ELSE [error |-> NoError,
                 value |-> [v EXCEPT !.items[i.idx + 1] = value],
                 heap |-> heap_]
      [] v.t = "ArrayRef" -> value_set_array_ref(heap_, v, index, value)
      [] v.t = "Text" /\ value.t # "Text" ->
           LET i == checked_index(heap_, v, index) IN
           IF ~i.ok THEN [error |-> i.error, heap |-> heap_]
           ELSE [error |-> UnsupportedArrayValueType(value), heap |-> heap_]
      [] OTHER -> [error |-> ArrayAccessError("UnsupportedArrayType"), heap |-> heap_]

\* ValueType::set: [error, value, heap]
value_set(heap_, v, index, value) ==
    CASE v.t = "Text" /\ value.t = "Text" ->
           LET i == checked_index(heap_, v, index) IN
           IF ~i.ok THEN [error |-> i.error, heap |-> heap_]
           \* s.replace_range(idx..idx + 1, v): a range of bytes
           ELSE IF ~is_char_boundary(v.s, i.idx) \/ ~is_char_boundary(v.s, i.idx + 1)
                THEN [error |-> Panic("not a char boundary"), heap |-> heap_]
           ELSE [error |-> NoError,
                 value |-> Text(SubSeq(v.s, 1, chars_before(v.s, i.idx))
                                \o value.s
                                \o SubSeq(v.s, chars_before(v.s, i.idx + 1) + 1,
                                          Len(v.s))),
                 heap |-> heap_]
      [] v.t = "Array" ->
           LET i == checked_index(heap_, v, index) IN
           IF ~i.ok THEN [error |-> i.error, heap |-> heap_]
           ELSE [error |-> NoError,
                 value |-> [v EXCEPT !.items[i.idx + 1] = value],
                 heap |-> heap_]
      [] v.t = "ArrayRef" -> value_set_array_ref(heap_, v, index, value)
      [] v.t = "Text" /\ value.t # "Text" ->
           [error |-> UnsupportedArrayValueType(value), heap |-> heap_]
      [] OTHER -> [error |-> ArrayAccessError("UnsupportedArrayType"), heap |-> heap_]

\* ValueType::as_string
as_string(v) ==
    CASE v.t = "Nil" -> <<110, 105, 108>>
      [] v.t = "Bool" -> BoolToString(v.b)
      [] v.t = "Number" -> NumToString(v.n)
      [] v.t = "Text" -> v.s
      [] v.t = "Function" -> v.name
      [] v.t = "NativeFunction" -> v.name
      [] v.t = "Address" -> NumToString(v.a)
      [] v.t = "Array" -> <<91, 93>>
      [] v.t = "ArrayRef" -> <<38, 91, 93>>

(***************************************************************************)
(* Virtual machine (vm/mod.rs, vm/call.rs, vm/stack.rs, vm/native.rs)      *)
(*                                                                         *)
(* A handler is an operator from the machine M = [stack, frames, globals,  *)
(* heap, out, error] to the machine it leaves; error is what the handler   *)
(* returns (NoError for Ok), or a panic.                                   *)
(***************************************************************************)

Top(s) == s[Len(s)]
Front(s) == SubSeq(s, 1, Len(s) - 1)

\* CallFrame::new
CallFrame(chunk, stack_top) == [chunk |-> chunk, ip |-> 0, stack_top |-> stack_top]

Fault(M, e) == [M EXCEPT !.error = e]
Push(M, v) == [M EXCEPT !.stack = Append(@, v)]

\* "len", "as_char", "as_string"
NameLen == <<108, 101, 110>>
NameAsChar == <<97, 115, 95, 99, 104, 97, 114>>
NameAsString == <<97, 115, 95, 115, 116, 114, 105, 110, 103>>

\* native::std_lib, as Vm::default defines it in the globals.
std_lib ==
    [name \in {NameLen, NameAsChar, NameAsString} |-> NativeFunction(name, 1)]

Abs(n) == IF n < 0 THEN -n ELSE n

binary_value_cmp_same_variant(heap_, operation, a, b) ==
    LET numbers == a.t = "Number" /\ b.t = "Number" IN
    CASE operation = "Add" /\ numbers -> [error |-> NoError, value |-> Number(a.n + b.n)]
      [] operation = "Add" /\ a.t = "Text" /\ b.t = "Text" ->
           [error |-> NoError, value |-> Text(a.s \o b.s)]
      [] operation = "Sub" /\ numbers -> [error |-> NoError, value |-> Number(a.n - b.n)]
      [] operation = "Mul" /\ numbers -> [error |-> NoError, value |-> Number(a.n * b.n)]
      [] operation = "Div" /\ numbers ->
           IF b.n # 0 /\ Abs(a.n) % Abs(b.n) = 0
           THEN [error |-> NoError,
                 value |-> Number((IF (a.n < 0) = (b.n < 0) THEN 1 ELSE -1)
                                  * (Abs(a.n) \div Abs(b.n)))]
           ELSE [error |-> VmError("outside")]
      [] operation = "Ge" /\ numbers -> [error |-> NoError, value |-> Bool(a.n >= b.n)]
      [] operation = "Le" /\ numbers -> [error |-> NoError, value |-> Bool(a.n <= b.n)]
      [] operation = "Cmp" /\ numbers -> [error |-> NoError, value |-> Bool(a.n = b.n)]
      [] operation = "Cmp" /\ a.t = "Bool" /\ b.t = "Bool" ->
           [error |-> NoError, value |-> Bool(a.b = b.b)]
      [] operation = "Cmp" /\ a.t = "Text" /\ b.t = "Text" ->
           [error |-> NoError, value |-> Bool(a.s = b.s)]
      [] operation = "Cmp" /\ a.t = b.t -> [error |-> NoError, value |-> Bool(a = b)]
      [] operation = "LoadIndex" -> value_get(heap_, a, b)
      [] operation = "Not" -> [error |-> VmError("WrongOperation")]
      [] OTHER -> [error |-> VmError("TypeMismatch")]

\* The match of Vm::binary_operation: [error, value] for the popped
\* value_a (first) and value_b (second).
binary_value(heap_, operation, a, b) ==
    LET numbers == a.t = "Number" /\ b.t = "Number" IN
    CASE operation = "Add" /\ numbers -> [error |-> NoError, value |-> Number(a.n + b.n)]
      [] operation = "Add" /\ a.t = "Text" /\ b.t = "Text" ->
           [error |-> NoError, value |-> Text(a.s \o b.s)]
      [] operation = "Sub" /\ numbers -> [error |-> NoError, value |-> Number(a.n - b.n)]
      [] operation = "Mul" /\ numbers -> [error |-> NoError, value |-> Number(a.n * b.n)]
      [] operation = "Div" /\ numbers ->
           IF b.n # 0 /\ Abs(a.n) % Abs(b.n) = 0
           THEN [error |-> NoError,
                 value |-> Number((IF (a.n < 0) = (b.n < 0) THEN 1 ELSE -1)
                                  * (Abs(a.n) \div Abs(b.n)))]
           ELSE [error |-> VmError("outside")]
      [] operation = "Ge" /\ numbers -> [error |-> NoError, value |-> Bool(a.n >= b.n)]
      [] operation = "Le" /\ numbers -> [error |-> NoError, value |-> Bool(a.n <= b.n)]
      [] operation = "Cmp" /\ numbers -> [error |-> NoError, value |-> Bool(a.n = b.n)]
      [] operation = "Cmp" /\ a.t = "Bool" /\ b.t = "Bool" ->
           [error |-> NoError, value |-> Bool(a.b = b.b)]
      [] operation = "Cmp" /\ a.t = "Text" /\ b.t = "Text" ->
           [error |-> NoError, value |-> Bool(a.s = b.s)]
      [] operation = "LoadIndex" -> value_get(heap_, a, b)
      [] operation = "Not" -> [error |-> VmError("WrongOperation")]
      [] OTHER -> [error |-> VmError("TypeMismatch")]

binary_operation_swapped(M, operation) ==
    IF Len(M.stack) = 0 THEN Fault(M, VmError("StackExhausted"))
    ELSE IF Len(M.stack) = 1
    THEN Fault([M EXCEPT !.stack = <<>>], VmError("StackExhausted"))
    ELSE LET value_b == M.stack[Len(M.stack)]
             value_a == M.stack[Len(M.stack) - 1]
             rest == SubSeq(M.stack, 1, Len(M.stack) - 2)
             r == binary_value(M.heap, operation, value_a, value_b)
         IN  IF r.error.e # "none" THEN Fault([M EXCEPT !.stack = rest], r.error)
             ELSE [M EXCEPT !.stack = Append(rest, r.value)]

\* Vm::binary_operation
vm_binary_operation(M, operation) ==
    IF Len(M.stack) = 0 THEN Fault(M, VmError("StackExhausted"))
    ELSE IF Len(M.stack) = 1
    THEN Fault([M EXCEPT !.stack = <<>>], VmError("StackExhausted"))
    ELSE LET value_a == M.stack[Len(M.stack)]
             value_b == M.stack[Len(M.stack) - 1]
             rest == SubSeq(M.stack, 1, Len(M.stack) - 2)
             r == binary_value(M.heap, operation, value_a, value_b)
         IN  IF r.error.e # "none" THEN Fault([M EXCEPT !.stack = rest], r.error)
             ELSE [M EXCEPT !.stack = Append(rest, r.value)]

\* Vm::store_index
store_index(M) ==
    IF Len(M.stack) < 3
    THEN Fault([M EXCEPT !.stack = <<>>], VmError("StackExhausted"))
    ELSE LET value == M.stack[Len(M.stack)]
             target == M.stack[Len(M.stack) - 1]
             idx == M.stack[Len(M.stack) - 2]
             rest == SubSeq(M.stack, 1, Len(M.stack) - 3)
             r == value_set(M.heap, target, idx, value)
         IN  IF r.error.e # "none" THEN Fault([M EXCEPT !.stack = rest], r.error)
             ELSE [M EXCEPT !.stack = Append(rest, r.value), !.heap = r.heap]

\* Vm::not
vm_not(M) ==
    IF Len(M.stack) = 0 THEN Fault(M, VmError("StackExhausted"))
    ELSE IF Top(M.stack).t = "Bool"
    THEN [M EXCEPT !.stack = Append(Front(@), Bool(~Top(M.stack).b))]
    ELSE Fault([M EXCEPT !.stack = Front(@)], VmError("TypeMismatch"))

\* The line Vm::print formats for a value.
print_line(heap_, v) ==
    CASE v.t = "Number" -> NumToString(v.n)
      [] v.t = "Bool" -> BoolToString(v.b)
      [] v.t = "Address" -> NumToString(v.a)
      [] v.t = "Nil" -> <<110, 105, 108>>
      [] v.t = "Function" -> <<102, 117, 110, 58>> \o v.name
      [] v.t = "NativeFunction" -> <<91, 102, 117, 110, 93, 58>> \o v.name
      [] v.t = "Text" -> v.s
      [] v.t = "Array" -> <<91>> \o NumToString(Len(v.items)) \o <<93, 10>>
      [] v.t = "ArrayRef" ->
           <<38, 91>> \o NumToString(Len(heap_[v.ref])) \o <<93, 10>>

\* Vm::print: one write of the line and a newline.  The sink is a buffer,
\* whose writes do not fail.
vm_print(M) ==
    IF Len(M.stack) = 0 THEN Fault(M, VmError("StackExhausted"))
    ELSE [M EXCEPT !.stack = Front(@),
                   !.out = Append(@, print_line(M.heap, Top(M.stack)) \o <<10>>)]

\* Vm::chunk
vm_chunk(M) == Top(M.frames).chunk

\* Vm::variable_name: [error, name]
variable_name(M, idx) ==
    IF idx >= Len(vm_chunk(M).constants)
    THEN [error |-> [e |-> "UndefinedConstant", idx |-> idx]]
    ELSE IF vm_chunk(M).constants[idx + 1].t = "Text"
    THEN [error |-> NoError, name |-> vm_chunk(M).constants[idx + 1].s]
    ELSE [error |-> VmError("TypeMismatch")]

\* VmStack::peek: `self.stack.get(self.stack.len() - offset - 1)`.  The
\* subtraction overflows under a short stack: a panic with overflow checks,
\* else an index no Vec has.
stack_peek(M, offset) ==
    IF Len(M.stack) - offset - 1 < 0
    THEN IF build = "debug" THEN [error |-> Panic("subtract with overflow")]
         ELSE [error |-> VmError("StackExhausted")]
    ELSE [error |-> NoError, value |-> M.stack[Len(M.stack) - offset]]

\* Vm::store_global, were it to take the value off the stack.
store_global_popping(M, idx) ==
    LET n == variable_name(M, idx)
        v == stack_peek(M, 0)
    IN  IF n.error.e # "none" THEN Fault(M, n.error)
        ELSE IF v.error.e # "none" THEN Fault(M, v.error)
        ELSE [M EXCEPT !.stack = Front(@),
                       !.globals =
                 [g \in DOMAIN M.globals \cup {n.name} |->
                     IF g = n.name THEN v.value ELSE M.globals[g]]]

\* Vm::store_global
store_global(M, idx) ==
    LET n == variable_name(M, idx)
        v == stack_peek(M, 0)
    IN  IF n.error.e # "none" THEN Fault(M, n.error)
        ELSE IF v.error.e # "none" THEN Fault(M, v.error)
        ELSE [M EXCEPT !.globals =
                 [g \in DOMAIN M.globals \cup {n.name} |->
                     IF g = n.name THEN v.value ELSE M.globals[g]]]

\* Vm::load_global
load_global(M, idx) ==
    LET n == variable_name(M, idx) IN
    IF n.error.e # "none" THEN Fault(M, n.error)
    ELSE IF n.name \notin DOMAIN M.globals
    THEN Fault(M, [e |-> "UndefinedVariable", name |-> n.name])
    ELSE Push(M, M.globals[n.name])

\* Vm::store_local
store_local(M, offset) ==
    LET frame_offset == Top(M.frames).stack_top + offset + 1 IN
    IF Len(M.stack) = 0 THEN Fault(M, VmError("StackExhausted"))
    ELSE IF frame_offset >= Len(M.stack) THEN Fault(M, VmError("StackExhausted"))
    ELSE [M EXCEPT !.stack[frame_offset + 1] = Top(M.stack)]

\* Vm::load_local
load_local(M, offset) ==
    LET frame_offset == Top(M.frames).stack_top + offset + 1 IN
    IF frame_offset >= Len(M.stack)
    THEN Fault(M, [e |-> "UndefinedVariable", name |-> NumToString(frame_offset)])
    ELSE Push(M, M.stack[frame_offset + 1])

offset_ip_wrapping(M, offset) ==
    LET frame == Top(M.frames) IN
    [M EXCEPT !.frames[Len(M.frames)].ip =
        IF frame.ip + offset < 0 THEN 0 ELSE frame.ip + offset]

\* Vm::offset_ip with CallFrame::jump: checked_add_signed on the ip, which
\* already points past the jump.
offset_ip(M, offset) ==
    LET frame == Top(M.frames) IN
    IF frame.ip + offset < 0
    THEN Fault(M, [e |-> "IllegalJump", ip |-> frame.ip, offset |-> offset])
    ELSE [M EXCEPT !.frames[Len(M.frames)].ip = frame.ip + offset]

\* Vm::jump
vm_jump(M, offset) == offset_ip(M, offset)

jump_if_false_when_true(M, offset) ==
    IF Len(M.stack) = 0 THEN Fault(M, VmError("StackExhausted"))
    ELSE LET value == Top(M.stack)
             M1 == [M EXCEPT !.stack = Front(@)]
         IN  IF value.t = "Bool"
             THEN IF value.b THEN offset_ip(M1, offset) ELSE M1
             ELSE Fault(M1, VmError("TypeMismatch"))

\* Vm::jump_if_false
jump_if_false(M, offset) ==
    IF Len(M.stack) = 0 THEN Fault(M, VmError("StackExhausted"))
    ELSE LET value == Top(M.stack)
             M1 == [M EXCEPT !.stack = Front(@)]
         IN  IF value.t = "Bool"
             THEN IF ~value.b THEN offset_ip(M1, offset) ELSE M1
             ELSE Fault(M1, VmError("TypeMismatch"))

\* Vm::initialize_array
vm_initialize_array(M) ==
    IF Len(M.stack) = 0 THEN Fault(M, VmError("StackExhausted"))
    ELSE IF Len(M.stack) = 1
    THEN Fault([M EXCEPT !.stack = <<>>], VmError("StackExhausted"))
    ELSE LET initial_value == M.stack[Len(M.stack)]
             size_value == M.stack[Len(M.stack) - 1]
             rest == SubSeq(M.stack, 1, Len(M.stack) - 2)
         IN  IF size_value.t # "Number"
             THEN Fault([M EXCEPT !.stack = rest], VmError("TypeMismatch"))
             ELSE LET size == IF size_value.n < 0 THEN 0 ELSE size_value.n IN
                  [M EXCEPT !.heap = Append(@, [i \in 1..size |-> initial_value]),
                            !.stack = Append(rest, ArrayRef(Len(M.heap) + 1))]

\* Vm::constant
vm_const(M, index) ==
    IF index >= Len(vm_chunk(M).constants)
    THEN Fault(M, [e |-> "UndefinedConstant", idx |-> index])
    ELSE Push(M, vm_chunk(M).constants[index + 1])

native_len_keeps_callable(M) ==
    IF Len(M.stack) < 2
    THEN Fault([M EXCEPT !.stack = <<>>], VmError("StackExhausted"))
    ELSE LET value == Top(M.stack)
             rest == Front(M.stack)
         IN  CASE value.t = "Text" ->
                    [M EXCEPT !.stack = Append(rest, Number(str_len(value.s)))]
               [] value.t = "Array" ->
                    [M EXCEPT !.stack = Append(rest, Number(Len(value.items)))]
               [] OTHER -> Fault([M EXCEPT !.stack = rest], VmError("TypeMismatch"))

\* native::len
native_len(M) ==
    IF Len(M.stack) < 2
    THEN Fault([M EXCEPT !.stack = <<>>], VmError("StackExhausted"))
    ELSE LET value == Top(M.stack)
             rest == SubSeq(M.stack, 1, Len(M.stack) - 2)
         IN  CASE value.t = "Text" ->
                    [M EXCEPT !.stack = Append(rest, Number(str_len(value.s)))]
               [] value.t = "Array" ->
                    [M EXCEPT !.stack = Append(rest, Number(Len(value.items)))]
               [] OTHER -> Fault([M EXCEPT !.stack = rest], VmError("TypeMismatch"))

\* native::as_char; `*n as u8` saturates.
native_as_char(M) ==
    IF Len(M.stack) < 2
    THEN Fault([M EXCEPT !.stack = <<>>], VmError("StackExhausted"))
    ELSE LET value == Top(M.stack)
             rest == SubSeq(M.stack, 1, Len(M.stack) - 2)
         IN  IF value.t = "Number"
             THEN LET c == IF value.n < 0 THEN 0
                           ELSE IF value.n > 255 THEN 255 ELSE value.n
                  IN  [M EXCEPT !.stack = Append(rest, Text(<<c>>))]
             ELSE Fault([M EXCEPT !.stack = rest], VmError("TypeMismatch"))

\* native::as_string
native_as_string(M) ==
    IF Len(M.stack) < 2
    THEN Fault([M EXCEPT !.stack = <<>>], VmError("StackExhausted"))
    ELSE [M EXCEPT !.stack = Append(SubSeq(M.stack, 1, Len(M.stack) - 2),
                                    Text(as_string(Top(M.stack))))]

\* NativeFunction::call: the function pointer std_lib registered for a name.
native_call(M, function) ==
    CASE function.name = NameLen -> native_len(M)
      [] function.name = NameAsChar -> native_as_char(M)
      [] function.name = NameAsString -> native_as_string(M)

call_function_unchecked(M, function, arity) ==
    [M EXCEPT !.frames =
        Append(@, CallFrame(function.chunk, Len(M.stack) - function.arity - 1))]

\* Vm::call_function
call_function(M, function, arity) ==
    IF arity # function.arity THEN Fault(M, VmError("TypeMismatch"))
    ELSE [M EXCEPT !.frames =
             Append(@, CallFrame(function.chunk,
                                 Len(M.stack) - function.arity - 1))]

\* Vm::call_native_function
call_native_function(M, function, arity) ==
    IF arity # function.arity THEN Fault(M, VmError("TypeMismatch"))
    ELSE native_call(M, function)

\* Vm::call
vm_call(M, arity) ==
    LET v == stack_peek(M, arity) IN
    IF v.error.e # "none" THEN Fault(M, v.error)
    ELSE CASE v.value.t = "Function" -> call_function(M, v.value, arity)
           [] v.value.t = "NativeFunction" -> call_native_function(M, v.value, arity)
           [] OTHER -> Fault(M, VmError("TypeMismatch"))

\* Vm::ret
ret(M) ==
    IF Len(M.stack) = 0 THEN Fault(M, VmError("StackExhausted"))
    ELSE LET result == Top(M.stack)
             frame == Top(M.frames)
             popped == Front(M.stack)
             truncated == IF Len(popped) > frame.stack_top
                          THEN SubSeq(popped, 1, frame.stack_top) ELSE popped
         IN  [M EXCEPT !.frames = Front(@), !.stack = Append(truncated, result)]

(***************************************************************************)
(* Abstract syntax (ast.rs)                                                *)
(***************************************************************************)

NilLiteral == [k |-> "Nil"]
NumberLiteral(n) == [k |-> "NumberLiteral", n |-> n]
BooleanLiteral(b) == [k |-> "BooleanLiteral", b |-> b]
StringLiteral(s) == [k |-> "StringLiteral", s |-> s]
Index(array, index) == [k |-> "Index", array |-> array, index |-> index]
Variable(name) == [k |-> "Variable", name |-> name]
AssignVariable(name, expr) == [k |-> "AssignVariable", name |-> name, expr |-> expr]
Assign(target, value) == [k |-> "Assign", target |-> target, value |-> value]
Array(initial, size) == [k |-> "Array", initial |-> initial, size |-> size]
Call(name, args) == [k |-> "Call", name |-> name, args |-> args]
BinaryOperation(op, a, b) == [k |-> "BinaryOperation", op |-> op, a |-> a, b |-> b]
UnaryOperation(op, e) == [k |-> "UnaryOperation", op |-> op, e |-> e]

StatementExpression(e) == [k |-> "Expression", e |-> e]
StatementVariable(name, value) == [k |-> "Variable", name |-> name, value |-> value]
StatementFunction(name, params, body) ==
    [k |-> "Function", name |-> name, params |-> params, body |-> body]
StatementPrint(e) == [k |-> "Print", e |-> e]
StatementBlock(list) == [k |-> "Block", statements |-> list]
StatementIf(condition, then, otherwise) ==
    [k |-> "If", condition |-> condition, then |-> then, otherwise |-> otherwise]
StatementWhile(condition, body) ==
    [k |-> "While", condition |-> condition, body |-> body]
StatementReturn(e) == [k |-> "Return", e |-> e]

(***************************************************************************)
(* Source programs, as the parser (parser/statement.rs,                    *)
(* parser/expression.rs) builds them.  An expression statement starts with *)
(* an identifier; the body of an if or a while is any statement.           *)
(***************************************************************************)

\* Largest number literal of the operator programs.
MaxNumber == 2

\* Size of the arrays of the aliasing programs.
ArrayLen == 2

Va == <<97>>
Vb == <<98>>
Vf == <<102>>
Vn == <<110>>

Num(n) == NumberLiteral(n)
Let(name, e) == StatementVariable(name, <<e>>)

\* The texts of the concatenation programs: "", "a", "b", "ab".
Texts == << <<>>, <<97>>, <<98>>, <<97, 98>> >>

Listed ==
    << \* 1: let a = 1;
       << Let(Va, Num(1)) >>,
       \* 2: fun f() { { let b = 1; print b = 2; print b = 2; } } f();
       << StatementFunction(Vf, <<>>,
            << StatementBlock(<< Let(Vb, Num(1)),
                                 StatementPrint(AssignVariable(Vb, Num(2))),
                                 StatementPrint(AssignVariable(Vb, Num(2))) >>) >>),
          StatementExpression(Call(Vf, <<>>)) >>,
       \* 3: { if (false) let a = 1; let b = 2; print b; }
       << StatementBlock(<< StatementIf(BooleanLiteral(FALSE), Let(Va, Num(1)), <<>>),
                            Let(Vb, Num(2)),
                            StatementPrint(Variable(Vb)) >>) >>,
       \* 4: if (true) print 1;
       << StatementIf(BooleanLiteral(TRUE), StatementPrint(Num(1)), <<>>) >>,
       \* 5: let a = true; while (a) a = false;
       << Let(Va, BooleanLiteral(TRUE)),
          StatementWhile(Variable(Va),
              StatementExpression(AssignVariable(Va, BooleanLiteral(FALSE)))) >>,
       \* 6: while (false) print 1;
       << StatementWhile(BooleanLiteral(FALSE), StatementPrint(Num(1))) >>,
       \* 7: if (1 >= 2) print 1; else print 2;
       << StatementIf(BinaryOperation("GreaterOrEqual", Num(1), Num(2)),
                      StatementPrint(Num(1)), <<StatementPrint(Num(2))>>) >>,
       \* 8: fun f(a) { return a + 1; } print f(1);
       << StatementFunction(Vf, <<Va>>,
            << StatementReturn(BinaryOperation("Add", Variable(Va), Num(1))) >>),
          StatementPrint(Call(Vf, <<Num(1)>>)) >>,
       \* 9: print len("ab"); print as_char(97); print as_string(1);
       << StatementPrint(Call(NameLen, <<StringLiteral(<<97, 98>>)>>)),
          StatementPrint(Call(NameAsChar, <<Num(97)>>)),
          StatementPrint(Call(NameAsString, <<Num(1)>>)) >>,
       \* 10: print !true;
       << StatementPrint(UnaryOperation("Not", BooleanLiteral(TRUE))) >>,
       \* 11: { let a = 1; { let a = a + 1; print a; } print a; }
       << StatementBlock(<<
            Let(Va, Num(1)),
            StatementBlock(<< Let(Va, BinaryOperation("Add", Variable(Va), Num(1))),
                              StatementPrint(Variable(Va)) >>),
            StatementPrint(Variable(Va)) >>) >>,
       \* 12: fun f(n) { if (n <= 0) return 0; return n + f(n - 1); } print f(2);
       << StatementFunction(Vf, <<Vn>>,
            << StatementIf(BinaryOperation("LessOrEqual", Variable(Vn), Num(0)),
                           StatementReturn(Num(0)), <<>>),
               StatementReturn(
                   BinaryOperation("Add", Variable(Vn),
                       Call(Vf, <<BinaryOperation("Sub", Variable(Vn), Num(1))>>))) >>),
          StatementPrint(Call(Vf, <<Num(2)>>)) >>,
       \* 13: { let a = [0; 2]; let b = a; b[0] = 1; print a[0]; }
       << StatementBlock(<<
            Let(Va, Array(Num(0), Num(2))),
            Let(Vb, Variable(Va)),
            StatementExpression(Assign(Index(Variable(Vb), Num(0)), Num(1))),
            StatementPrint(Index(Variable(Va), Num(0))) >>) >>,
       \* 14: print 2 * 3; print 4 / 2; print -1;
       << StatementPrint(BinaryOperation("Mul", Num(2), Num(3))),
          StatementPrint(BinaryOperation("Div", Num(4), Num(2))),
          StatementPrint(UnaryOperation("Negate", Num(1))) >>,
       \* 15: a = 1;
       << StatementExpression(AssignVariable(Va, Num(1))) >>,
       \* 16: fun f() { while (false) print 1; } f();
       << StatementFunction(Vf, <<>>,
            << StatementWhile(BooleanLiteral(FALSE), StatementPrint(Num(1))) >>),
          StatementExpression(Call(Vf, <<>>)) >>,
       \* 17: { let a = 1; a = 2; print a; }
       << StatementBlock(<< Let(Va, Num(1)),
                            StatementExpression(AssignVariable(Va, Num(2))),
                            StatementPrint(Variable(Va)) >>) >>,
       \* 18: print 1;
       << StatementPrint(Num(1)) >>,
       \* 19: fun f() { if (true) print 1; } f();
       << StatementFunction(Vf, <<>>,
            << StatementIf(BooleanLiteral(TRUE), StatementPrint(Num(1)), <<>>) >>),
          StatementExpression(Call(Vf, <<>>)) >>,
       \* 20: fun f() { print 1; } print f();
       << StatementFunction(Vf, <<>>, << StatementPrint(Num(1)) >>),
          StatementPrint(Call(Vf, <<>>)) >>,
       \* 21: fun f() { fun n() { } print n(); } print f();
       << StatementFunction(Vf, <<>>,
            << StatementFunction(Vn, <<>>, <<>>),
               StatementPrint(Call(Vn, <<>>)) >>),
          StatementPrint(Call(Vf, <<>>)) >>,
       \* 22: fun f() { print 1; print len(1); print 2; } f(); print 3;
       << StatementFunction(Vf, <<>>,
            << StatementPrint(Num(1)),
               StatementPrint(Call(NameLen, <<Num(1)>>)),
               StatementPrint(Num(2)) >>),
          StatementExpression(Call(Vf, <<>>)),
          StatementPrint(Num(3)) >>,
       \* 23: return 1;
       << StatementReturn(Num(1)) >>,
       \* 24: print 1; return 2; print 3;
       << StatementPrint(Num(1)), StatementReturn(Num(2)), StatementPrint(Num(3)) >>,
       \* 25: fun f() { print 1; } fun f() { print 2; } f();
       << StatementFunction(Vf, <<>>, << StatementPrint(Num(1)) >>),
          StatementFunction(Vf, <<>>, << StatementPrint(Num(2)) >>),
          StatementExpression(Call(Vf, <<>>)) >>,
       \* 26: let a = 1; print b; print a;
       << Let(Va, Num(1)), StatementPrint(Variable(Vb)),
          StatementPrint(Variable(Va)) >>
    >>

\* The operators of the programs `print x OP y;`.
Operators ==
    {"Sub", "Less", "LessOrEqual", "Greater", "GreaterOrEqual", "Equal", "NotEqual"}

\* print x OP y;
PrintBinary(op, x, y) == << StatementPrint(BinaryOperation(op, x, y)) >>

\* let a = [0; ArrayLen]; let b = a; W[x] = y; print a[x]; print b[x];
\* where W, the binding written through, is a or b.
ArrayAlias(w, x, y) ==
    << Let(Va, Array(Num(0), Num(ArrayLen))),
       Let(Vb, Variable(Va)),
       StatementExpression(Assign(Index(Variable(w), Num(x)), Num(y))),
       StatementPrint(Index(Variable(Va), Num(x))),
       StatementPrint(Index(Variable(Vb), Num(x))) >>

\* let a = "ab"; let b = a; W[x] = "c"; print a; print b;
TextAlias(w, x) ==
    << Let(Va, StringLiteral(<<97, 98>>)),
       Let(Vb, Variable(Va)),
       StatementExpression(Assign(Index(Variable(w), Num(x)), StringLiteral(<<99>>))),
       StatementPrint(Variable(Va)),
       StatementPrint(Variable(Vb)) >>

\* Two declarations, `let a = 1;` and `let N = 2;`, N the name a or b, with
\* `print N;` after the second and `print a;` where the first is in scope:
\*   0  { let a = 1; let N = 2; print N; print a; }
\*   1  { let a = 1; { let N = 2; print N; } print a; }
\*   2  let a = 1; let N = 2; print N; print a;
\*   3  let a = 1; { let N = 2; print N; } print a;
\*   4  fun f(a) { let N = 2; print N; print a; } f(1);
Declare(x, N) ==
    CASE x = 0 -> << StatementBlock(<< Let(Va, Num(1)), Let(N, Num(2)),
                                       StatementPrint(Variable(N)),
                                       StatementPrint(Variable(Va)) >>) >>
      [] x = 1 -> << StatementBlock(<< Let(Va, Num(1)),
                                       StatementBlock(<< Let(N, Num(2)),
                                                         StatementPrint(Variable(N)) >>),
                                       StatementPrint(Variable(Va)) >>) >>
      [] x = 2 -> << Let(Va, Num(1)), Let(N, Num(2)),
                     StatementPrint(Variable(N)), StatementPrint(Variable(Va)) >>
      [] x = 3 -> << Let(Va, Num(1)),
                     StatementBlock(<< Let(N, Num(2)), StatementPrint(Variable(N)) >>),
                     StatementPrint(Variable(Va)) >>
      [] x = 4 -> << StatementFunction(Vf, <<Va>>,
                        << Let(N, Num(2)), StatementPrint(Variable(N)),
                           StatementPrint(Variable(Va)) >>),
                     StatementExpression(Call(Vf, <<Num(1)>>)) >>

\* A loop of y iterations, by where the `while` stands in its chunk:
\*   0  while (false) print 1; print 9;
\*   1  let a = 0; while (a < y) { print a; a = a + 1; } print 9;
\*   2  fun f(n) { while (0 < n) { print n; n = n - 1; } print 9; } f(y);
\*   3  fun f(n) { print 8; while (0 < n) { print n; n = n - 1; } print 9; } f(y);
CountDown ==
    StatementWhile(BinaryOperation("Less", Num(0), Variable(Vn)),
        StatementBlock(<< StatementPrint(Variable(Vn)),
                          StatementExpression(AssignVariable(Vn,
                              BinaryOperation("Sub", Variable(Vn), Num(1)))) >>))

While(x, y) ==
    CASE x = 0 -> << StatementWhile(BooleanLiteral(FALSE), StatementPrint(Num(1))),
                     StatementPrint(Num(9)) >>
      [] x = 1 -> << Let(Va, Num(0)),
                     StatementWhile(BinaryOperation("Less", Variable(Va), Num(y)),
                        StatementBlock(<< StatementPrint(Variable(Va)),
                                          StatementExpression(AssignVariable(Va,
                                              BinaryOperation("Add", Variable(Va),
                                                              Num(1)))) >>)),
                     StatementPrint(Num(9)) >>
      [] x = 2 -> << StatementFunction(Vf, <<Vn>>,
                        << CountDown, StatementPrint(Num(9)) >>),
                     StatementExpression(Call(Vf, <<Num(y)>>)) >>
      [] x = 3 -> << StatementFunction(Vf, <<Vn>>,
                        << StatementPrint(Num(8)), CountDown, StatementPrint(Num(9)) >>),
                     StatementExpression(Call(Vf, <<Num(y)>>)) >>

\* A conditional followed by `print 9;`, c and d Boolean literals:
\*   0  if (c) print 1;                  1  if (c) print 1; else print 2;
\*   2  if (c) {} else {}                3  if (c) {}
\*   4  if (c) print 1; else if (d) print 2; else print 3;
\*   5  if (c) print 1; else {}          6  if (c) {} else print 2;
If(x, c, d) ==
    LET P(n) == StatementPrint(Num(n))
        E == StatementBlock(<<>>)
        C == BooleanLiteral(c)
    IN  << CASE x = 0 -> StatementIf(C, P(1), <<>>)
             [] x = 1 -> StatementIf(C, P(1), <<P(2)>>)
             [] x = 2 -> StatementIf(C, E, <<E>>)
             [] x = 3 -> StatementIf(C, E, <<>>)
             [] x = 4 -> StatementIf(C, P(1),
                            <<StatementIf(BooleanLiteral(d), P(2), <<P(3)>>)>>)
             [] x = 5 -> StatementIf(C, P(1), <<E>>)
             [] x = 6 -> StatementIf(C, E, <<P(2)>>),
           StatementPrint(Num(9)) >>

\* The conditions of a conditional program id: c is the low bit of y, d the
\* high bit.
CondC(p) == p.y % 2 = 1
CondD(p) == p.y \div 2 = 1

\* A call with y arguments of what f is bound to; for x = 1 the native len:
\*   0  fun f(a) { }     2  let f = 1;     4  let f = "a";    6  let f = [0; 1];
\*   7  fun f() { }      3  let f;         5  let f = true;
\* followed by `print f("a", ...);`.
Callee(x) ==
    CASE x = 0 -> << StatementFunction(Vf, <<Va>>, <<>>) >>
      [] x = 1 -> << >>
      [] x = 2 -> << Let(Vf, Num(1)) >>
      [] x = 3 -> << StatementVariable(Vf, <<>>) >>
      [] x = 4 -> << Let(Vf, StringLiteral(Va)) >>
      [] x = 5 -> << Let(Vf, BooleanLiteral(TRUE)) >>
      [] x = 6 -> << Let(Vf, Array(Num(0), Num(1))) >>
      [] x = 7 -> << StatementFunction(Vf, <<>>, <<>>) >>

CallWith(x, y) ==
    Callee(x) \o << StatementPrint(Call(IF x = 1 THEN NameLen ELSE Vf,
                                        [i \in 1..y |-> StringLiteral(Va)])) >>

\* The operands of the programs `print X == Y;`: nil, 1, 2, true, false,
\* "a", "b", [0; 1] and the native function len.
CmpOperands ==
    << NilLiteral, Num(1), Num(2), BooleanLiteral(TRUE), BooleanLiteral(FALSE),
       StringLiteral(Va), StringLiteral(Vb), Array(Num(0), Num(1)),
       Variable(NameLen) >>

\* The arguments of the native-call programs: nil, true, 2, 97, 233, 300,
\* "", "ab", "é", [0; ArrayLen], the function f, the native len and
\* as_char(233).
NativeArgs ==
    << NilLiteral, BooleanLiteral(TRUE), Num(2), Num(97), Num(233), Num(300),
       StringLiteral(<<>>), StringLiteral(<<97, 98>>), StringLiteral(<<233>>),
       Array(Num(0), Num(ArrayLen)), Variable(Vf), Variable(NameLen),
       Call(NameAsChar, <<Num(233)>>) >>

NativeNamed(op) ==
    CASE op = "len" -> NameLen
      [] op = "as_char" -> NameAsChar
      [] op = "as_string" -> NameAsString

\* fun f() { } print X; print F(X);
NativeProgram(op, x) ==
    << StatementFunction(Vf, <<>>, <<>>),
       StatementPrint(NativeArgs[x]),
       StatementPrint(Call(NativeNamed(op), <<NativeArgs[x]>>)) >>

ProgramIds ==
    [kind : {"listed"}, i : 1..Len(Listed), op : {"none"}, x : {0}, y : {0}]
    \cup [kind : {"binary"}, i : {0}, op : Operators,
          x : 0..MaxNumber, y : 0..MaxNumber]
    \cup [kind : {"concat"}, i : {0}, op : {"Add"},
          x : 1..Len(Texts), y : 1..Len(Texts)]
    \cup [kind : {"array_alias"}, i : {0}, op : {"a", "b"},
          x : 0..(ArrayLen - 1), y : 0..MaxNumber]
    \cup [kind : {"text_alias"}, i : {0}, op : {"a", "b"}, x : {0, 1}, y : {0}]
    \cup [kind : {"declare"}, i : {0}, op : {"a", "b"}, x : 0..4, y : {0}]
    \cup [kind : {"if"}, i : {0}, op : {"none"}, x : 0..6, y : 0..3]
    \cup [kind : {"call"}, i : {0}, op : {"none"}, x : 0..7, y : 0..MaxNumber]
    \cup [kind : {"cmp"}, i : {0}, op : {"Equal"},
          x : 1..Len(CmpOperands), y : 1..Len(CmpOperands)]
    \cup [kind : {"native"}, i : {0}, op : {"len", "as_char", "as_string"},
          x : 1..Len(NativeArgs), y : {0}]
    \cup [kind : {"order"}, i : {0}, op : Operators,
          x : 0..MaxNumber, y : 0..MaxNumber]
    \cup [kind : {"while"}, i : {0}, op : {"none"}, x : {0}, y : {0}]
    \cup [kind : {"while"}, i : {0}, op : {"none"}, x : 1..3, y : 0..MaxNumber]

Binding(op) == IF op = "a" THEN Va ELSE Vb

\* fun f(a) { print a; return a; }
\* print f(x) OP f(y); print (b = x) OP (b = y); print b;
OperandOrder(op, x, y) ==
    << StatementFunction(Vf, <<Va>>,
          << StatementPrint(Variable(Va)), StatementReturn(Variable(Va)) >>),
       StatementPrint(BinaryOperation(op, Call(Vf, <<Num(x)>>),
                                      Call(Vf, <<Num(y)>>))),
       StatementPrint(BinaryOperation(op, AssignVariable(Vb, Num(x)),
                                      AssignVariable(Vb, Num(y)))),
       StatementPrint(Variable(Vb)) >>

\* The program a program id stands for.
program_of(p) ==
    CASE p.kind = "listed" -> Listed[p.i]
      [] p.kind = "binary" -> PrintBinary(p.op, Num(p.x), Num(p.y))
      [] p.kind = "concat" ->
           PrintBinary(p.op, StringLiteral(Texts[p.x]), StringLiteral(Texts[p.y]))
      [] p.kind = "array_alias" -> ArrayAlias(Binding(p.op), p.x, p.y)
      [] p.kind = "text_alias" -> TextAlias(Binding(p.op), p.x)
      [] p.kind = "declare" -> Declare(p.x, Binding(p.op))
      [] p.kind = "native" -> NativeProgram(p.op, p.x)
      [] p.kind = "order" -> OperandOrder(p.op, p.x, p.y)
      [] p.kind = "while" -> While(p.x, p.y)
      [] p.kind = "cmp" -> PrintBinary(p.op, CmpOperands[p.x], CmpOperands[p.y])
      [] p.kind = "call" -> CallWith(p.x, p.y)
      [] p.kind = "if" -> If(p.x, CondC(p), CondD(p))

(***************************************************************************)
(* Running a script: Compiler::compile_script, then Vm::run_script on      *)
(* Vm::default()                                                           *)
(***************************************************************************)

NoStep == [op |-> Op0("None"), stack |-> <<>>, nframes |-> 0, call |-> <<>>]

\* The compiler's variables while a script runs.
CompilerIdle ==
    /\ cs = CompilerDefault("debug")
    /\ scopes = <<>>
    /\ lexer = <<>>
    /\ parser = <<>>
    /\ the_program = <<>>

\* Vm::default() and the first three lines of Vm::run_script, for the script
\* the compiler returned; a compile error or a compiler panic ends the run
\* before it starts.
Init ==
    /\ prog \in ProgramIds
    /\ build \in {"debug", "release"}
    /\ \E compiled \in {compile_script(build, program_of(prog))} :
       /\ script = compiled.script
       /\ status = CASE compiled.err.e = "none" -> "running"
                     [] compiled.err.e = "panic" -> "panic"
                     [] OTHER -> "compile_error"
       /\ err = IF compiled.err.e = "none" THEN NoError ELSE compiled.err
       /\ frames = IF compiled.err.e = "none"
                   THEN <<CallFrame(compiled.script[1].chunk, 0)>> ELSE <<>>
       /\ stack = IF compiled.err.e = "none" THEN <<compiled.script[1]>> ELSE <<>>
    /\ globals = std_lib
    /\ heap = <<>>
    /\ out = <<>>
    /\ calls = <<>>
    /\ last = NoStep
    /\ CompilerIdle

\* `while let Some(op) = self.advance()`: the frame has an op at its ip.
HasOp ==
    /\ status = "running"
    /\ frames # <<>>
    /\ Top(frames).ip < Len(Top(frames).chunk.ops)

\* The op CallFrame::advance returns.
CurOp == Top(frames).chunk.ops[Top(frames).ip + 1]

\* The machine once CallFrame::advance has moved the ip past the op.
Advanced ==
    [stack |-> stack,
     frames |-> [frames EXCEPT ![Len(frames)].ip = @ + 1],
     globals |-> globals, heap |-> heap, out |-> out, error |-> NoError]

Step_ignoring_errors(M) ==
    /\ stack' = M.stack
    /\ frames' = M.frames
    /\ globals' = M.globals
    /\ heap' = M.heap
    /\ out' = M.out
    /\ status' = CASE M.error.e = "panic" -> "panic"
                   [] M.error.e = "outside" -> "outside"
                   [] M.frames = <<>> -> "panic"
                   [] OTHER -> "running"
    /\ err' = IF M.error.e = "none" /\ M.frames = <<>>
              THEN Panic("unwrap on None") ELSE M.error
    /\ calls' = calls
    /\ last' = [op |-> CurOp, stack |-> stack, nframes |-> Len(frames),
                call |-> <<>>]
    /\ UNCHANGED <<prog, build, script, compilerVars, frontVars>>

\* One iteration of the loop of Vm::run: the machine M the handler left,
\* the `?` on its result, and trace_after, which unwraps the current frame.
Step(M) ==
    /\ stack' = M.stack
    /\ frames' = M.frames
    /\ globals' = M.globals
    /\ heap' = M.heap
    /\ out' = M.out
    /\ status' = CASE M.error.e = "panic" -> "panic"
                   [] M.error.e = "outside" -> "outside"
                   [] M.error.e # "none" -> "error"
                   [] M.frames = <<>> -> "panic"
                   [] OTHER -> "running"
    /\ err' = IF M.error.e = "none" /\ M.frames = <<>>
              THEN Panic("unwrap on None") ELSE M.error
    /\ calls' = IF Len(M.frames) > Len(frames)
                THEN Append(calls, [h |-> Len(stack), n |-> CurOp.arg,
                                    stack |-> stack, nframes |-> Len(frames)])
                ELSE IF Len(M.frames) < Len(frames) /\ calls # <<>>
                THEN Front(calls)
                ELSE calls
    /\ last' = [op |-> CurOp, stack |-> stack, nframes |-> Len(frames),
                call |-> IF Len(M.frames) < Len(frames) /\ calls # <<>>
                         THEN <<Top(calls)>> ELSE <<>>]
    /\ UNCHANGED <<prog, build, script, compilerVars, frontVars>>

vm_pop(M) ==
    IF Len(M.stack) = 0 THEN Fault(M, VmError("StackExhausted"))
    ELSE [M EXCEPT !.stack = Front(@)]

OpReturn == HasOp /\ CurOp.op = "Return" /\ Step(ret(Advanced))

OpArray == HasOp /\ CurOp.op = "Array" /\ Step(vm_initialize_array(Advanced))

OpCall == HasOp /\ CurOp.op = "Call" /\ Step(vm_call(Advanced, CurOp.arg))

OpConst == HasOp /\ CurOp.op = "Const" /\ Step(vm_const(Advanced, CurOp.arg))

OpConstFloat ==
    HasOp /\ CurOp.op = "ConstFloat" /\ Step(Push(Advanced, Number(CurOp.arg)))

OpConstBool ==
    HasOp /\ CurOp.op = "ConstBool" /\ Step(Push(Advanced, Bool(CurOp.arg)))

OpLoadIndex ==
    HasOp /\ CurOp.op = "LoadIndex" /\ Step(vm_binary_operation(Advanced, "LoadIndex"))

OpStoreIndex == HasOp /\ CurOp.op = "StoreIndex" /\ Step(store_index(Advanced))

OpPop == HasOp /\ CurOp.op = "Pop" /\ Step(vm_pop(Advanced))

OpNil == HasOp /\ CurOp.op = "Nil" /\ Step(Push(Advanced, Nil))

\* Op::Add | Op::Sub | Op::Mul | Op::Div | Op::Ge | Op::Le | Op::Cmp
OpBinary ==
    /\ HasOp
    /\ CurOp.op \in {"Add", "Sub", "Mul", "Div", "Ge", "Le", "Cmp"}
    /\ Step(vm_binary_operation(Advanced, CurOp.op))

OpNot == HasOp /\ CurOp.op = "Not" /\ Step(vm_not(Advanced))

OpPrint == HasOp /\ CurOp.op = "Print" /\ Step(vm_print(Advanced))

OpStoreGlobal ==
    HasOp /\ CurOp.op = "StoreGlobal" /\ Step(store_global(Advanced, CurOp.arg))

OpLoadGlobal ==
    HasOp /\ CurOp.op = "LoadGlobal" /\ Step(load_global(Advanced, CurOp.arg))

OpStoreLocal ==
    HasOp /\ CurOp.op = "StoreLocal" /\ Step(store_local(Advanced, CurOp.arg))

OpLoadLocal ==
    HasOp /\ CurOp.op = "LoadLocal" /\ Step(load_local(Advanced, CurOp.arg))

OpJump == HasOp /\ CurOp.op = "Jump" /\ Step(vm_jump(Advanced, CurOp.arg))

OpJumpIfFalse ==
    HasOp /\ CurOp.op = "JumpIfFalse" /\ Step(jump_if_false(Advanced, CurOp.arg))

\* advance() returns None: Vm::run returns Ok and Vm::run_script pops the
\* script's slot.
RunScriptEnd ==
    /\ status = "running"
    /\ frames # <<>>
    /\ Top(frames).ip >= Len(Top(frames).chunk.ops)
    /\ frames' = [frames EXCEPT ![Len(frames)].ip = @ + 1]
    /\ IF stack = <<>>
       THEN /\ status' = "error"
            /\ err' = VmError("StackExhausted")
            /\ stack' = stack
       ELSE /\ status' = "done"
            /\ err' = NoError
            /\ stack' = Front(stack)
    /\ last' = [op |-> Op0("End"), stack |-> stack, nframes |-> Len(frames),
                call |-> <<>>]
    /\ UNCHANGED <<prog, build, script, globals, heap, out, calls, compilerVars,
                   frontVars>>

Next ==
    \/ OpReturn
    \/ OpArray
    \/ OpCall
    \/ OpConst
    \/ OpConstFloat
    \/ OpConstBool
    \/ OpLoadIndex
    \/ OpStoreIndex
    \/ OpPop
    \/ OpNil
    \/ OpBinary
    \/ OpNot
    \/ OpPrint
    \/ OpStoreGlobal
    \/ OpLoadGlobal
    \/ OpStoreLocal
    \/ OpLoadLocal
    \/ OpJump
    \/ OpJumpIfFalse
    \/ RunScriptEnd

Spec == Init /\ [][Next]_vars

(***************************************************************************)
(* Vm::run_script on hand-assembled chunks with jumps of any offset         *)
(***************************************************************************)

MaxBack == 5

\* i times Nil, Pop; then Jump(offset), or ConstBool(c), JumpIfFalse(offset);
\* then Nil, Pop.
JumpChunk(p) ==
    [ops |-> [k \in 1..(2 * p.i) |-> IF k % 2 = 1 THEN Op0("Nil") ELSE Op0("Pop")]
             \o (IF p.op = "Jump" THEN <<Op1("Jump", p.y)>>
                 ELSE <<Op1("ConstBool", p.x = 1), Op1("JumpIfFalse", p.y)>>)
             \o <<Op0("Nil"), Op0("Pop")>>,
     constants |-> <<>>]

ChunkIds ==
    [kind : {"chunk"}, i : 0..1, op : {"Jump"}, x : {0}, y : (-MaxBack)..1]
    \cup [kind : {"chunk"}, i : 0..1, op : {"JumpIfFalse"}, x : {0, 1},
          y : (-MaxBack)..1]

\* Vm::default() and the first three lines of Vm::run_script for
\* Function::script of the chunk.
InitChunk ==
    /\ prog \in ChunkIds
    /\ build \in {"debug", "release"}
    /\ script = <<FunctionScript(JumpChunk(prog))>>
    /\ status = "running"
    /\ err = NoError
    /\ frames = <<CallFrame(JumpChunk(prog), 0)>>
    /\ stack = script
    /\ globals = std_lib
    /\ heap = <<>>
    /\ out = <<>>
    /\ calls = <<>>
    /\ last = NoStep
    /\ CompilerIdle

NextChunk ==
    \/ OpNil
    \/ OpPop
    \/ OpConstBool
    \/ OpJump
    \/ OpJumpIfFalse
    \/ RunScriptEnd

SpecChunk == InitChunk /\ [][NextChunk]_vars

(***************************************************************************)
(* Vm::run_script on hand-assembled chunks that take from a short stack    *)
(***************************************************************************)

\* Most values pushed before the instruction that takes.
MaxPushed == 2

\* Largest arity of a Call.
MaxArity == 3

\* i times Pop (the first takes the script's slot), x times Nil, then
\* Call(y) or the instruction p.op.
StackChunk(p) ==
    [ops |-> [k \in 1..p.i |-> Op0("Pop")] \o [k \in 1..p.x |-> Op0("Nil")]
             \o <<IF p.op = "Call" THEN Op1("Call", p.y) ELSE Op0(p.op)>>,
     constants |-> <<>>]

\* The chunk Call(0) alone calls the script it is, without end, and is left
\* out.
StackIds ==
    {p \in [kind : {"stack"}, i : 0..1, op : {"Call"}, x : 0..MaxPushed,
            y : 0..MaxArity] : ~(p.i = 0 /\ p.x = 0 /\ p.y = 0)}
    \cup [kind : {"stack"}, i : 0..1, op : {"Pop", "Add", "Not", "Print", "Array"},
          x : 0..MaxPushed, y : {0}]

\* Vm::default() and the first three lines of Vm::run_script for
\* Function::script of the chunk.
InitStack ==
    /\ prog \in StackIds
    /\ build \in {"debug", "release"}
    /\ script = <<FunctionScript(StackChunk(prog))>>
    /\ status = "running"
    /\ err = NoError
    /\ frames = <<CallFrame(StackChunk(prog), 0)>>
    /\ stack = script
    /\ globals = std_lib
    /\ heap = <<>>
    /\ out = <<>>
    /\ calls = <<>>
    /\ last = NoStep
    /\ CompilerIdle

NextStack ==
    \/ OpNil
    \/ OpPop
    \/ OpCall
    \/ OpBinary
    \/ OpNot
    \/ OpPrint
    \/ OpArray
    \/ RunScriptEnd

SpecStack == InitStack /\ [][NextStack]_vars

(***************************************************************************)
(* The compiler's scope table at work: the calls Compiler::block and       *)
(* Compiler::statement make on it while a program is compiled.             *)
(***************************************************************************)

\* Deepest nesting of blocks.
MaxDepth == 3

\* Most ops the compiler under construction emits.
MaxOps == 6

\* The names declared and referenced.
Names == {Va, Vb}

\* The initializers of a declaration: none, a literal, a variable.
Initializers == {<<>>, <<Num(1)>>} \cup {<<Variable(n)>> : n \in Names}

IdleProgram == [kind |-> "none", i |-> 0, op |-> "none", x |-> 0, y |-> 0]

\* The virtual machine's variables while the compiler works.
VmIdle ==
    /\ prog = IdleProgram
    /\ build = "debug"
    /\ script = <<>>
    /\ stack = <<>>
    /\ frames = <<>>
    /\ globals = std_lib
    /\ heap = <<>>
    /\ out = <<>>
    /\ status = "idle"
    /\ err = NoError
    /\ calls = <<>>
    /\ lexer = <<>>
    /\ parser = <<>>
    /\ the_program = <<>>

NoCompilerStep ==
    [op |-> "none", before |-> CompilerDefault("debug"), name |-> <<>>,
     value |-> <<>>, scope |-> <<>>]

InitLocals ==
    /\ VmIdle
    /\ cs = CompilerDefault("debug")
    /\ scopes = <<>>
    /\ last = NoCompilerStep

Compiling == status = "idle" /\ ~Failed(cs)

\* What a step of the compiler leaves in `last`.
CompilerStep(op, name, value) ==
    [op |-> op, before |-> cs, name |-> name, value |-> value,
     scope |-> IF scopes # <<>> THEN <<Top(scopes)>> ELSE <<>>]

\* Compiler::begin_scope, the first call of Compiler::block.
BeginScope ==
    /\ Compiling
    /\ cs.locals.depth < MaxDepth
    /\ cs' = begin_scope(cs)
    /\ scopes' = Append(scopes, [locals |-> cs.locals, added |-> 0])
    /\ last' = CompilerStep("begin_scope", <<>>, <<>>)
    /\ UNCHANGED vmVars_but_last

\* Compiler::end_scope, the last call of Compiler::block.
EndScope ==
    /\ Compiling
    /\ cs.locals.depth > 0
    /\ cs' = end_scope(cs)
    /\ scopes' = Front(scopes)
    /\ last' = CompilerStep("end_scope", <<>>, <<>>)
    /\ UNCHANGED vmVars_but_last

\* Compiler::variable_declaration for `let name;` or `let name = value;`.
VariableDeclaration ==
    /\ Compiling
    /\ Len(cs.ops) < MaxOps
    /\ \E name \in Names, value \in Initializers :
          /\ cs' = variable_declaration(cs, name, value)
          /\ scopes' = IF cs.locals.depth > 0 /\ ~check_local(cs.locals, name)
                       THEN [scopes EXCEPT ![Len(scopes)].added = @ + 1]
                       ELSE scopes
          /\ last' = CompilerStep("variable_declaration", name, value)
    /\ UNCHANGED vmVars_but_last

NextLocals ==
    \/ BeginScope
    \/ EndScope
    \/ VariableDeclaration

SpecLocals == InitLocals /\ [][NextLocals]_vars

(***************************************************************************)
(* The constant pool of a chunk builder: any sequence of                   *)
(* ChunkBuilder::add_constant calls                                        *)
(***************************************************************************)

\* The values added: texts, a number, nil, and two functions of one name,
\* which are equal values.
PoolValues ==
    {Text(Va), Text(Vb), Number(1), Nil,
     Function(Vf, [ops |-> <<>>, constants |-> <<>>], 0),
     Function(Vf, [ops |-> <<Op0("Nil")>>, constants |-> <<>>], 1)}

NoPoolStep == [op |-> "none", before |-> <<>>, value |-> Nil, idx |-> 0]

InitPool ==
    /\ VmIdle
    /\ cs = CompilerDefault("debug")
    /\ scopes = <<>>
    /\ last = NoPoolStep

AddConstant ==
    /\ \E value \in PoolValues :
          \E r \in {builder_add_constant(cs.constants, value)} :
             /\ cs' = [cs EXCEPT !.constants = r.constants]
             /\ last' = [op |-> "add_constant", before |-> cs.constants,
                         value |-> value, idx |-> r.idx]
    /\ UNCHANGED <<scopes, prog, build, script, stack, frames, globals, heap,
                   out, status, err, calls, frontVars>>

NextPool == AddConstant

SpecPool == InitPool /\ [][NextPool]_vars

(***************************************************************************)
(* Indexed reads and writes: ValueType::get and ValueType::set on any      *)
(* value, index and assigned value                                         *)
(***************************************************************************)

MaxIndex == 3

\* The arrays behind the ArrayRef values: [0, 1] and the empty array.
IndexHeap == << <<Number(0), Number(1)>>, <<>> >>

\* The values indexed: texts "", "a", "ab", "\u{e9}" and "a\u{e9}" (U+00E9
\* takes two bytes), arrays, and values that cannot be indexed.
IndexTargets ==
    {Text(<<>>), Text(<<97>>), Text(<<97, 98>>), Text(<<233>>), Text(<<97, 233>>),
     ArrayRef(1), ArrayRef(2), [t |-> "Array", items |-> <<Number(5), Nil>>],
     Number(1), Nil, Bool(TRUE), NativeFunction(NameLen, 1)}

IndexValues ==
    {Number(i) : i \in (-1)..MaxIndex} \cup {Nil, Bool(FALSE), Text(<<97>>)}

AssignedValues == {Text(<<99>>), Number(7), Nil}

\* The values assigned into a target: into a Text also the texts "", "cd"
\* and "\u{e9}".
AssignedTo(target) ==
    IF target.t = "Text"
    THEN AssignedValues \cup {Text(<<>>), Text(<<99, 100>>), Text(<<233>>)}
    ELSE AssignedValues

NoIndexStep ==
    [op |-> "none", target |-> Nil, index |-> Nil, value |-> Nil,
     result |-> [error |-> NoError], heap |-> <<>>]

InitIndex ==
    /\ prog = IdleProgram
    /\ build = "debug"
    /\ script = <<>>
    /\ stack = <<>>
    /\ frames = <<>>
    /\ globals = std_lib
    /\ heap = IndexHeap
    /\ out = <<>>
    /\ status = "idle"
    /\ err = NoError
    /\ calls = <<>>
    /\ lexer = <<>>
    /\ parser = <<>>
    /\ the_program = <<>>
    /\ cs = CompilerDefault("debug")
    /\ scopes = <<>>
    /\ last = NoIndexStep

\* target.get(&index)
Get ==
    /\ \E target \in IndexTargets, index \in IndexValues :
          last' = [op |-> "get", target |-> target, index |-> index, value |-> Nil,
                   result |-> value_get(heap, target, index), heap |-> heap]
    /\ UNCHANGED <<prog, build, script, stack, frames, globals, heap, out,
                   status, err, calls, cs, scopes, frontVars>>

\* target.set(&index, value)
Set ==
    /\ \E target \in IndexTargets, index \in IndexValues :
       \E value \in AssignedTo(target) :
          \E r \in {value_set(heap, target, index, value)} :
             /\ heap' = r.heap
             /\ last' = [op |-> "set", target |-> target, index |-> index,
                         value |-> value, result |-> r, heap |-> heap]
    /\ UNCHANGED <<prog, build, script, stack, frames, globals, out,
                   status, err, calls, cs, scopes, frontVars>>

NextIndex == Get \/ Set

SpecIndex == InitIndex /\ [][NextIndex]_vars

(***************************************************************************)
(* Lexer (lexer/mod.rs, lexer/token.rs, source.rs)                         *)
(*                                                                         *)
(* A Lexer is [source, start, pos, line, column].  The source reads        *)
(* characters with `chars().nth(pos)`, compares pos with `source.len()`,   *)
(* the length in bytes, and slices `&source[start..pos]` by bytes; the     *)
(* model computes each as the source does.                                 *)
(***************************************************************************)

Position(line, column) == [line |-> line, column |-> column]

\* Token: the variants without data, and Number, Identifier, StringLiteral.
Token(kind) == [kind |-> kind]
TokenNumber(value) == [kind |-> "Number", value |-> value]
TokenIdentifier(name) == [kind |-> "Identifier", name |-> name]
TokenStringLiteral(s) == [kind |-> "StringLiteral", s |-> s]

\* Token::with_position: the SourceToken
with_position(token, pos) == [kind |-> token, source |-> pos]

\* Lexer::new
lexer_new(source) ==
    [source |-> source, start |-> 0, pos |-> 0, line |-> 1, column |-> 1]

\* str::chars().nth(n)
chars_nth(s, n) == IF n < Len(s) THEN <<s[n + 1]>> ELSE <<>>

\* Lexer::peek
lexer_peek(L, offset) == chars_nth(L.source, L.pos + offset)

\* Lexer::advance; the character it returns is lexer_peek(L, 0).
lexer_advance(L) == [L EXCEPT !.pos = @ + 1, !.column = @ + 1]

\* Lexer::advance_if
advance_if(L, c) == IF lexer_peek(L, 0) = <<c>> THEN lexer_advance(L) ELSE L

\* Lexer::at_end
at_end(L) == L.pos >= str_len(L.source)

\* Lexer::src_pos
src_pos(L) == Position(L.line, L.column - 1)

is_ascii_whitespace(c) == c \in {9, 10, 12, 13, 32}
is_ascii_digit(c) == c \in 48..57
is_ascii_alphanumeric(c) == c \in (48..57) \cup (65..90) \cup (97..122)

RECURSIVE skip_whitespace(_)
\* Lexer::skip_whitespace
skip_whitespace(L) ==
    LET c == lexer_peek(L, 0) IN
    IF c = <<>> \/ ~is_ascii_whitespace(c[1]) THEN L
    ELSE skip_whitespace(lexer_advance(
             IF c[1] = 10 THEN [L EXCEPT !.line = @ + 1, !.column = 0] ELSE L))

RECURSIVE advance_until(_, _)
\* The loops of the comment arm and of string_literal: advance to the next
\* character `stop`, or to the end.
advance_until(L, stop) ==
    LET c == lexer_peek(L, 0) IN
    IF c = <<>> \/ c[1] = stop THEN L ELSE advance_until(lexer_advance(L), stop)

RECURSIVE advance_digits(_)
\* The loops of number: advance over ASCII digits.
advance_digits(L) ==
    LET c == lexer_peek(L, 0) IN
    IF c = <<>> \/ ~is_ascii_digit(c[1]) THEN L
    ELSE advance_digits(lexer_advance(L))

RECURSIVE advance_identifier(_)
\* The loop of identifier: advance over ASCII letters, digits and '_'.
advance_identifier(L) ==
    LET c == lexer_peek(L, 0) IN
    IF c = <<>> \/ (~is_ascii_alphanumeric(c[1]) /\ c[1] # 95) THEN L
    ELSE advance_identifier(lexer_advance(L))

\* &s[a..b], a range of bytes: [ok, s]; not ok is the panic of a range that
\* is out of bounds or not on character boundaries.
str_slice(s, a, b) ==
    IF a <= b /\ b <= str_len(s) /\ is_char_boundary(s, a) /\ is_char_boundary(s, b)
    THEN [ok |-> TRUE, s |-> SubSeq(s, chars_before(s, a) + 1, chars_before(s, b))]
    ELSE [ok |-> FALSE, s |-> <<>>]

RECURSIVE digits_value(_)
digits_value(ds) ==
    IF ds = <<>> THEN 0 ELSE 10 * digits_value(Front(ds)) + (ds[Len(ds)] - 48)

RECURSIVE strip_zeros(_)
strip_zeros(ds) ==
    IF ds # <<>> /\ ds[Len(ds)] = 48 THEN strip_zeros(Front(ds)) ELSE ds

\* The position of the first '.' of a text, 0 when it has none.
dot_at(text) ==
    IF \E i \in 1..Len(text) : text[i] = 46
    THEN CHOOSE i \in 1..Len(text) : text[i] = 46 /\ \A j \in 1..(i - 1) : text[j] # 46
    ELSE 0

\* str::parse::<f64> on an optional sign, digits and an optional fraction,
\* with a digit on one side of the '.' at least: [ok, value], the value as
\* [neg, int, frac], frac the digits of the fraction less its trailing zeros.
\* The exponent, "inf" and "nan" forms are not modelled: they fail.
parse_f64(text) ==
    LET signed == text # <<>> /\ text[1] \in {43, 45}
        body == IF signed THEN Tail(text) ELSE text
        dot == dot_at(body)
        int == IF dot = 0 THEN body ELSE SubSeq(body, 1, dot - 1)
        frac == IF dot = 0 THEN <<>> ELSE SubSeq(body, dot + 1, Len(body))
    IN  IF /\ \A i \in 1..Len(int) : is_ascii_digit(int[i])
           /\ \A i \in 1..Len(frac) : is_ascii_digit(frac[i])
           /\ Len(int) + Len(frac) > 0
        THEN [ok |-> TRUE,
              value |-> [neg |-> signed /\ text[1] = 45,
                         int |-> digits_value(int), frac |-> strip_zeros(frac)]]
        ELSE [ok |-> FALSE, value |-> [neg |-> FALSE, int |-> 0, frac |-> <<>>]]

\* What a step of the lexer returns: the lexer it leaves, the Option of a
\* token, and the Option of the message of a panic.
Lexed(L, token) == [lexer |-> L, token |-> <<with_position(token, src_pos(L))>>,
                    panic |-> <<>>]
LexerPanic(L, msg) == [lexer |-> L, token |-> <<>>, panic |-> <<msg>>]

\* Lexer::number
lexer_number(L) ==
    LET L1 == advance_digits(L)
        L2 == IF lexer_peek(L1, 0) = <<46>>
              THEN advance_digits(lexer_advance(L1)) ELSE L1
        number_literal == str_slice(L2.source, L2.start, L2.pos)
        value == parse_f64(number_literal.s)
    IN  IF ~number_literal.ok THEN LexerPanic(L2, "slice")
        ELSE IF ~value.ok THEN LexerPanic(L2, "must be a correct number")
        ELSE Lexed(L2, TokenNumber(value.value))

\* Lexer::string_literal
lexer_string_literal(L) ==
    LET L1 == lexer_advance(advance_until(L, 34))
        string_literal == str_slice(L1.source, L1.start + 1, L1.pos - 1)
    IN  IF ~string_literal.ok THEN LexerPanic(L1, "slice")
        ELSE Lexed(L1, TokenStringLiteral(string_literal.s))

\* print, let, true, false, if, else, while, fun, return, nil
Keywords ==
    << <<"Print", <<112, 114, 105, 110, 116>> >>,
       <<"Let", <<108, 101, 116>> >>,
       <<"True", <<116, 114, 117, 101>> >>,
       <<"False", <<102, 97, 108, 115, 101>> >>,
       <<"If", <<105, 102>> >>,
       <<"Else", <<101, 108, 115, 101>> >>,
       <<"While", <<119, 104, 105, 108, 101>> >>,
       <<"Fun", <<102, 117, 110>> >>,
       <<"Return", <<114, 101, 116, 117, 114, 110>> >>,
       <<"Nil", <<110, 105, 108>> >> >>

\* Lexer::identifier
lexer_identifier(L) ==
    LET L1 == advance_identifier(L)
        identifier == str_slice(L1.source, L1.start, L1.pos)
    IN  IF ~identifier.ok THEN LexerPanic(L1, "slice")
        ELSE IF \E k \in 1..Len(Keywords) : Keywords[k][2] = identifier.s
        THEN Lexed(L1, Token(Keywords[
                 CHOOSE k \in 1..Len(Keywords) : Keywords[k][2] = identifier.s][1]))
        ELSE Lexed(L1, TokenIdentifier(identifier.s))

\* The arms of advance_token for '=', '!', '<' and '>': the token with a
\* following '=', and the token without.
lexer_pair(L, with_equal, without) ==
    IF lexer_peek(L, 0) = <<61>>
    THEN Lexed(advance_if(L, 61), Token(with_equal))
    ELSE Lexed(L, Token(without))

\* The tokens of one character.
Punctuation ==
    [c \in {43, 45, 42, 40, 41, 123, 125, 91, 93, 59, 44} |->
        CASE c = 43 -> "Plus" [] c = 45 -> "Minus" [] c = 42 -> "Star"
          [] c = 40 -> "LeftParen" [] c = 41 -> "RightParen"
          [] c = 123 -> "LeftCurly" [] c = 125 -> "RightCurly"
          [] c = 91 -> "LeftSquare" [] c = 93 -> "RightSquare"
          [] c = 59 -> "Semicolon" [] c = 44 -> "Comma"]

\* Lexer::advance_token
advance_token(L0) ==
    LET L1 == skip_whitespace(L0) IN
    IF at_end(L1) THEN Lexed(L1, Token("EndOfFile"))
    ELSE LET c == lexer_peek(L1, 0)
             L == lexer_advance([L1 EXCEPT !.start = L1.pos])
         IN  CASE c = <<>> -> LexerPanic(L, "character exhausted prematurely")
               [] c # <<>> /\ c[1] \in DOMAIN Punctuation -> Lexed(L, Token(Punctuation[c[1]]))
               [] c = <<47>> ->
                    IF lexer_peek(L, 0) = <<47>>
                    THEN [lexer |-> advance_until(lexer_advance(L), 10),
                          token |-> <<>>, panic |-> <<>>]
                    ELSE Lexed(L, Token("Slash"))
               [] c = <<61>> -> lexer_pair(L, "EqualEqual", "Equal")
               [] c = <<33>> -> lexer_pair(L, "BangEqual", "Bang")
               [] c = <<60>> -> lexer_pair(L, "LessEqual", "Less")
               [] c = <<62>> -> lexer_pair(L, "GreaterEqual", "Greater")
               [] c # <<>> /\ is_ascii_digit(c[1]) -> lexer_number(L)
               [] c # <<>> /\ (c[1] \in (65..90) \cup (97..122) \cup {95}) ->
                    lexer_identifier(L)
               [] c = <<34>> -> lexer_string_literal(L)
               [] OTHER -> Lexed(L, Token("Error"))

RECURSIVE next_token(_)
\* Lexer::next_token
next_token(L) ==
    LET maybe_token == advance_token(L) IN
    IF maybe_token.token = <<>> /\ maybe_token.panic = <<>>
    THEN next_token(maybe_token.lexer)
    ELSE maybe_token

(***************************************************************************)
(* The lexer at work: Lexer::new on any source over a small alphabet, then *)
(* calls of Lexer::next_token                                              *)
(***************************************************************************)

MaxSource == 4
MaxEofCalls == 2

\* '\n', ' ', '"', '#', '/', '1', '=', 'a', 'é'
Alphabet == {10, 32, 34, 35, 47, 49, 61, 97, 233}

Sources == UNION {[1..n -> Alphabet] : n \in 0..MaxSource}

NoToken == [token |-> <<>>, before |-> <<>>, tokens |-> <<>>, eofs |-> 0]

InitLexer ==
    /\ lexer \in {lexer_new(source) : source \in Sources}
    /\ parser = <<>>
    /\ the_program = <<>>
    /\ last = NoToken
    /\ prog = IdleProgram
    /\ build = "debug"
    /\ script = <<>>
    /\ stack = <<>>
    /\ frames = <<>>
    /\ globals = std_lib
    /\ heap = <<>>
    /\ out = <<>>
    /\ status = "running"
    /\ err = NoError
    /\ calls = <<>>
    /\ cs = CompilerDefault("debug")
    /\ scopes = <<>>

\* One call of Lexer::next_token; a panic ends the use of the lexer.
NextToken ==
    /\ status = "running"
    /\ last.eofs < MaxEofCalls
    /\ \E r \in {next_token(lexer)} :
          /\ lexer' = r.lexer
          /\ status' = IF r.panic = <<>> THEN "running" ELSE "panic"
          /\ err' = IF r.panic = <<>> THEN NoError ELSE Panic(r.panic[1])
          /\ last' = [token |-> r.token, before |-> <<lexer>>,
                      tokens |-> last.tokens \o r.token,
                      eofs |-> IF r.token # <<>> /\ r.token[1].kind.kind = "EndOfFile"
                               THEN last.eofs + 1 ELSE last.eofs]
    /\ UNCHANGED <<prog, build, script, stack, frames, globals, heap, out,
                   calls, cs, scopes, parser, the_program>>

NextLexer == NextToken

SpecLexer == InitLexer /\ [][NextLexer]_vars

(***************************************************************************)
(* Expression parser (parser/expression.rs, parser/advance.rs,             *)
(* parser/mod.rs)                                                          *)
(*                                                                         *)
(* A Parser is [tokens], the SourceTokens its Peekable has not yielded.    *)
(* A parsing function returns [parser, error, expr]: the parser it leaves, *)
(* the ParsingError (NoError for Ok) and the Option of the Expression.     *)
(***************************************************************************)

\* The variants of Expression that parser/expression.rs builds and ast.rs
\* does not list.
FunctionCall(name, args) == [k |-> "FunctionCall", name |-> name, args |-> args]
AssignIndexVariable(variable, index, value) ==
    [k |-> "AssignIndexVariable", variable |-> variable, index |-> index,
     value |-> value]

ParsingError(e, position) == [e |-> e, position |-> position]
UnexpectedToken(token, position) ==
    [e |-> "UnexpectedToken", token |-> token, position |-> position]
MissingToken(position, expected, actual) ==
    [e |-> "MissingToken", position |-> position, expected |-> expected,
     actual |-> actual]

Parsed(P, e) == [parser |-> P, error |-> NoError, expr |-> <<e>>]
ParseFailed(P, error) == [parser |-> P, error |-> error, expr |-> <<>>]

\* Parser::new
parser_new(tokens) == [tokens |-> tokens]

\* Parser::peek
parser_peek(P) == IF P.tokens = <<>> THEN Token("EndOfFile") ELSE Head(P.tokens).kind

\* Parser::advance: the parser it leaves; the token it returns is
\* parser_peek(P).
parser_advance(P) == IF P.tokens = <<>> THEN P ELSE [P EXCEPT !.tokens = Tail(@)]

\* Parser::last_position
last_position(P) ==
    IF P.tokens = <<>> THEN Position(0, 0) ELSE Head(P.tokens).source

\* Parser::consume; the expected token is a variant without data.
consume(P, expected) ==
    IF parser_peek(P).kind = expected.kind THEN [parser |-> parser_advance(P), error |-> NoError]
    ELSE [parser |-> parser_advance(P),
          error |-> MissingToken(last_position(parser_advance(P)), expected,
                                 parser_peek(P))]

\* Precedence::base_binding
base_binding(p) ==
    CASE p = "Assignment" -> 1
      [] p = "Equality" -> 7
      [] p = "Comparison" -> 9
      [] p = "Term" -> 11
      [] p = "Factor" -> 13
      [] p = "Unary" -> 15
      [] p = "Call" -> 17
      [] p = "Index" -> 19

precedence_infix_binding_right(p) ==
    IF p \in {"Unary", "Index"} THEN <<>>
    ELSE << <<base_binding(p) + 1, base_binding(p)>> >>

\* Precedence::infix_binding: the Option of (left, right)
precedence_infix_binding(p) ==
    IF p \in {"Unary", "Index"} THEN <<>>
    ELSE << <<base_binding(p), base_binding(p) + 1>> >>

\* Precedence::prefix_binding
precedence_prefix_binding(p) == IF p = "Unary" THEN <<base_binding(p)>> ELSE <<>>

\* Precedence::postfix_binding
precedence_postfix_binding(p) ==
    IF p \in {"Index", "Call"} THEN <<base_binding(p)>> ELSE <<>>

\* Parser::binary_operator
binary_operator(P) ==
    LET kind == parser_peek(P).kind IN
    CASE kind = "Plus" -> <<"Add">>
      [] kind = "Minus" -> <<"Sub">>
      [] kind = "Star" -> <<"Mul">>
      [] kind = "Slash" -> <<"Div">>
      [] kind = "EqualEqual" -> <<"Equal">>
      [] kind = "BangEqual" -> <<"NotEqual">>
      [] kind = "Less" -> <<"Less">>
      [] kind = "LessEqual" -> <<"LessOrEqual">>
      [] kind = "Greater" -> <<"Greater">>
      [] kind = "GreaterEqual" -> <<"GreaterOrEqual">>
      [] OTHER -> <<>>

\* Parser::infix_binding
infix_binding(P) ==
    LET kind == parser_peek(P).kind IN
    CASE kind \in {"Plus", "Minus"} -> precedence_infix_binding("Term")
      [] kind \in {"Star", "Slash"} -> precedence_infix_binding("Factor")
      [] kind \in {"EqualEqual", "BangEqual"} -> precedence_infix_binding("Equality")
      [] kind \in {"Less", "LessEqual"} -> precedence_infix_binding("Comparison")
      [] kind \in {"Greater", "GreaterEqual"} -> precedence_infix_binding("Comparison")
      [] kind = "Equal" -> precedence_infix_binding("Assignment")
      [] OTHER -> <<>>

\* Parser::postfix_binding
postfix_binding(P) ==
    LET kind == parser_peek(P).kind IN
    CASE kind = "LeftSquare" -> precedence_postfix_binding("Index")
      [] kind = "LeftParen" -> precedence_postfix_binding("Call")
      [] OTHER -> <<>>

\* Parser::prefix_binding
prefix_binding(token) ==
    IF token.kind \in {"Minus", "Bang"} THEN precedence_prefix_binding("Unary")
    ELSE <<>>

RECURSIVE expression_bp(_, _)
RECURSIVE expression_loop(_, _, _)
RECURSIVE function_call_arguments(_, _, _)

\* Parser::grouping
grouping(P) ==
    LET expr == expression_bp(P, 0) IN
    IF expr.error.e # "none" THEN expr
    ELSE LET closed == consume(expr.parser, Token("RightParen")) IN
         IF closed.error.e # "none" THEN ParseFailed(closed.parser, closed.error)
         ELSE Parsed(closed.parser, expr.expr[1])

\* Parser::unary_operation
parser_unary_operation(P, token) ==
    LET binding == prefix_binding(token) IN
    IF binding = <<>>
    THEN ParseFailed(P, ParsingError("UnknownOperation", last_position(P)))
    ELSE LET rhs == expression_bp(P, binding[1]) IN
         IF rhs.error.e # "none" THEN rhs
         ELSE Parsed(rhs.parser,
                     UnaryOperation(IF token.kind = "Minus" THEN "Negate" ELSE "Not",
                                    rhs.expr[1]))

\* Parser::binary_operation
parser_binary_operation(P, lhs, right_binding) ==
    LET op == binary_operator(P) IN
    IF op = <<>> THEN ParseFailed(P, ParsingError("Unknown", last_position(P)))
    ELSE LET rhs == expression_bp(parser_advance(P), right_binding) IN
         IF rhs.error.e # "none"
         THEN ParseFailed(rhs.parser,
                          ParsingError("MissingOperand", last_position(rhs.parser)))
         ELSE Parsed(rhs.parser, BinaryOperation(op[1], lhs, rhs.expr[1]))

assignment_of_any_index(P, lhs, right_binding) ==
    IF lhs.k \in {"Variable", "Index"}
    THEN LET rhs == expression_bp(P, right_binding) IN
         IF rhs.error.e # "none" THEN rhs
         ELSE IF lhs.k = "Variable"
         THEN Parsed(rhs.parser, AssignVariable(lhs.name, rhs.expr[1]))
         ELSE Parsed(rhs.parser,
                     AssignIndexVariable(IF lhs.array.k = "Variable"
                                         THEN lhs.array.name ELSE <<>>,
                                         lhs.index, rhs.expr[1]))
    ELSE ParseFailed(P, ParsingError("InvalidAssignment", last_position(P)))

\* Parser::assignment
assignment(P, lhs, right_binding) ==
    IF lhs.k = "Variable"
    THEN LET rhs == expression_bp(P, right_binding) IN
         IF rhs.error.e # "none" THEN rhs
         ELSE Parsed(rhs.parser, AssignVariable(lhs.name, rhs.expr[1]))
    ELSE IF lhs.k = "Index" /\ lhs.array.k = "Variable"
    THEN LET rhs == expression_bp(P, right_binding) IN
         IF rhs.error.e # "none" THEN rhs
         ELSE Parsed(rhs.parser,
                     AssignIndexVariable(lhs.array.name, lhs.index, rhs.expr[1]))
    ELSE ParseFailed(P, ParsingError("InvalidAssignment", last_position(P)))

\* Parser::index
parser_index(P, lhs) ==
    LET index == expression_bp(P, 0) IN
    IF index.error.e # "none" THEN index
    ELSE LET closed == consume(index.parser, Token("RightSquare")) IN
         IF closed.error.e # "none" THEN ParseFailed(closed.parser, closed.error)
         ELSE Parsed(closed.parser, Index(lhs, index.expr[1]))

\* Parser::array_initialisation
array_initialisation(P) ==
    LET initial == expression_bp(P, 0) IN
    IF initial.error.e # "none" THEN initial
    ELSE LET semicolon == consume(initial.parser, Token("Semicolon")) IN
         IF semicolon.error.e # "none"
         THEN ParseFailed(semicolon.parser, semicolon.error)
         ELSE LET size == expression_bp(semicolon.parser, 0) IN
              IF size.error.e # "none" THEN size
              ELSE LET closed == consume(size.parser, Token("RightSquare")) IN
                   IF closed.error.e # "none"
                   THEN ParseFailed(closed.parser, closed.error)
                   ELSE Parsed(closed.parser, Array(initial.expr[1], size.expr[1]))

\* The loop of Parser::function_call
function_call_arguments(P, name, arguments) ==
    LET expr == expression_bp(P, 0) IN
    IF expr.error.e # "none" THEN expr
    ELSE LET token == parser_peek(expr.parser)
             after == parser_advance(expr.parser)
         IN  CASE token.kind = "Comma" ->
                    function_call_arguments(after, name, Append(arguments, expr.expr[1]))
               [] token.kind = "RightParen" ->
                    Parsed(after, FunctionCall(name, Append(arguments, expr.expr[1])))
               [] OTHER ->
                    ParseFailed(after, ParsingError("MissingClosingParentheses",
                                                    last_position(after)))

\* Parser::function_call
parser_function_call(P, name) ==
    IF parser_peek(P).kind = "RightParen"
    THEN Parsed(consume(P, Token("RightParen")).parser, FunctionCall(name, <<>>))
    ELSE function_call_arguments(P, name, <<>>)

\* Parser::call
parser_call(P, lhs) ==
    IF lhs.k = "Variable" THEN parser_function_call(P, lhs.name)
    ELSE ParseFailed(P, ParsingError("InvalidCall", last_position(P)))

\* The loop of Parser::expression_bp.
expression_loop(P, lhs, min_binding) ==
    LET kind == parser_peek(P).kind
        postfix == postfix_binding(P)
        infix == infix_binding(P)
    IN  IF postfix # <<>>
        THEN IF postfix[1] < min_binding THEN Parsed(P, lhs)
             ELSE LET r == IF kind = "LeftSquare"
                           THEN parser_index(parser_advance(P), lhs)
                           ELSE parser_call(parser_advance(P), lhs)
                  IN  IF r.error.e # "none" THEN r
                      ELSE expression_loop(r.parser, r.expr[1], min_binding)
        ELSE IF infix # <<>>
        THEN IF infix[1][1] < min_binding THEN Parsed(P, lhs)
             ELSE LET r == IF kind = "Equal"
                           THEN assignment(parser_advance(P), lhs, infix[1][2])
                           ELSE parser_binary_operation(P, lhs, infix[1][2])
                  IN  IF r.error.e # "none" THEN r
                      ELSE expression_loop(r.parser, r.expr[1], min_binding)
        ELSE Parsed(P, lhs)

\* Parser::expression_bp
expression_bp(P0, min_binding) ==
    LET token == parser_peek(P0)
        P == parser_advance(P0)
        lhs == CASE token.kind = "Number" -> Parsed(P, NumberLiteral(token.value))
                 [] token.kind = "Nil" -> Parsed(P, NilLiteral)
                 [] token.kind = "True" -> Parsed(P, BooleanLiteral(TRUE))
                 [] token.kind = "False" -> Parsed(P, BooleanLiteral(FALSE))
                 [] token.kind = "StringLiteral" -> Parsed(P, StringLiteral(token.s))
                 [] token.kind \in {"Minus", "Bang"} -> parser_unary_operation(P, token)
                 [] token.kind = "Identifier" -> Parsed(P, Variable(token.name))
                 [] token.kind = "LeftParen" -> grouping(P)
                 [] token.kind = "LeftSquare" -> array_initialisation(P)
                 [] OTHER -> ParseFailed(P, UnexpectedToken(token, last_position(P)))
    IN  IF lhs.error.e # "none" THEN lhs
        ELSE expression_loop(lhs.parser, lhs.expr[1], min_binding)

\* Parser::expression
parser_expression(P) == expression_bp(P, 0)

(***************************************************************************)
(* Statement parser (parser/statement.rs, parser/mod.rs).  A parsing       *)
(* function returns [parser, error, expr], expr the Option of the          *)
(* Statement.                                                              *)
(***************************************************************************)

RECURSIVE parser_statement(_)
RECURSIVE block_statements(_, _)
RECURSIVE function_parameters(_, _)

\* The `?` on a parsing result: the error of r, or else what Rest makes of
\* r.  The result is taken once, as the code holds it in a local.
AndThen(result, Rest(_)) ==
    CHOOSE x \in {IF r.error.e # "none" THEN ParseFailed(r.parser, r.error)
                  ELSE Rest(r) : r \in {result}} : TRUE

\* `let expr = self.expression()?; self.consume(&Token::Semicolon)?;`
expression_semicolon(P) ==
    AndThen(parser_expression(P), LAMBDA expr :
    AndThen(consume(expr.parser, Token("Semicolon")), LAMBDA semicolon :
    Parsed(semicolon.parser, expr.expr[1])))

\* Parser::print_statement
print_statement(P) ==
    AndThen(expression_semicolon(P), LAMBDA expr :
    Parsed(expr.parser, StatementPrint(expr.expr[1])))

\* Parser::expression_statement
expression_statement(P) ==
    AndThen(expression_semicolon(P), LAMBDA expr :
    Parsed(expr.parser, StatementExpression(expr.expr[1])))

\* The Token::Return arm of Parser::statement
parser_return_statement(P) ==
    AndThen(expression_semicolon(P), LAMBDA expr :
    Parsed(expr.parser, StatementReturn(expr.expr[1])))

\* Parser::variable_definition
variable_definition(P0) ==
    LET token == parser_peek(P0)
        P == parser_advance(P0)
    IN  IF token.kind # "Identifier"
        THEN ParseFailed(P, MissingToken(last_position(P),
                                        TokenIdentifier("identifier"), token))
        ELSE IF P.tokens # <<>> /\ parser_peek(P).kind = "Equal"
        THEN AndThen(expression_semicolon(parser_advance(P)), LAMBDA expr :
             Parsed(expr.parser, StatementVariable(token.name, expr.expr)))
        ELSE AndThen(consume(P, Token("Semicolon")), LAMBDA semicolon :
             Parsed(semicolon.parser, StatementVariable(token.name, <<>>)))

\* The loop `while self.advance_if(Token::Comma)` of
\* Parser::function_definition: [parser, error, parameters].
function_parameters(P, parameters) ==
    IF P.tokens # <<>> /\ parser_peek(P).kind = "Comma"
    THEN LET P1 == parser_advance(P) IN
         IF parser_peek(P1).kind = "Identifier"
         THEN function_parameters(parser_advance(P1),
                                  Append(parameters, parser_peek(P1).name))
         ELSE function_parameters(P1, parameters)
    ELSE [parser |-> P, error |-> NoError, parameters |-> parameters]

\* The loop of Parser::block_statement and the consume after it.
block_statements(P, list) ==
    IF parser_peek(P).kind \in {"RightCurly", "EndOfFile"}
    THEN AndThen(consume(P, Token("RightCurly")), LAMBDA closed :
         Parsed(closed.parser, StatementBlock(list)))
    ELSE AndThen(parser_statement(P), LAMBDA one :
         block_statements(one.parser, Append(list, one.expr[1])))

\* Parser::block_statement
block_statement(P) == block_statements(P, <<>>)

\* Parser::function_definition
function_definition(P0) ==
    LET token == parser_peek(P0)
        P == parser_advance(P0)
    IN  IF token.kind # "Identifier"
        THEN ParseFailed(P, UnexpectedToken(token, last_position(P)))
        ELSE AndThen(consume(P, Token("LeftParen")), LAMBDA opened :
             AndThen(IF parser_peek(opened.parser).kind = "Identifier"
                     THEN function_parameters(parser_advance(opened.parser),
                                              <<parser_peek(opened.parser).name>>)
                     ELSE function_parameters(opened.parser, <<>>), LAMBDA list :
             AndThen(consume(list.parser, Token("RightParen")), LAMBDA closed :
             AndThen(consume(closed.parser, Token("LeftCurly")), LAMBDA curly :
             AndThen(block_statement(curly.parser), LAMBDA body :
             Parsed(body.parser,
                    StatementFunction(token.name, list.parameters,
                                      body.expr[1])))))))

\* `self.consume(&Token::LeftParen)?; let condition = self.expression()?;
\* self.consume(&Token::RightParen)?;` of if_statement and while_statement
parser_condition(P) ==
    AndThen(consume(P, Token("LeftParen")), LAMBDA opened :
    AndThen(parser_expression(opened.parser), LAMBDA condition :
    AndThen(consume(condition.parser, Token("RightParen")), LAMBDA closed :
    Parsed(closed.parser, condition.expr[1]))))

\* Parser::if_statement
parser_if_statement(P) ==
    AndThen(parser_condition(P), LAMBDA condition :
    AndThen(parser_statement(condition.parser), LAMBDA then_branch :
    IF then_branch.parser.tokens # <<>>
       /\ parser_peek(then_branch.parser).kind = "Else"
    THEN AndThen(parser_statement(parser_advance(then_branch.parser)),
                 LAMBDA else_branch :
         Parsed(else_branch.parser,
                StatementIf(condition.expr[1], then_branch.expr[1],
                            else_branch.expr)))
    ELSE Parsed(then_branch.parser,
                StatementIf(condition.expr[1], then_branch.expr[1], <<>>))))

\* Parser::while_statement
parser_while_statement(P) ==
    AndThen(parser_condition(P), LAMBDA condition :
    AndThen(parser_statement(condition.parser), LAMBDA body :
    Parsed(body.parser, StatementWhile(condition.expr[1], body.expr[1]))))

\* Parser::statement, were it to answer a `}` with an empty block and
\* leave the token where it is.
parser_statement_peeking(P0) ==
    LET token == parser_peek(P0)
        P == parser_advance(P0)
    IN  CASE token.kind = "Identifier" -> expression_statement(P0)
          [] token.kind = "Print" -> print_statement(P)
          [] token.kind = "LeftCurly" -> block_statement(P)
          [] token.kind = "Let" -> variable_definition(P)
          [] token.kind = "Fun" -> function_definition(P)
          [] token.kind = "If" -> parser_if_statement(P)
          [] token.kind = "While" -> parser_while_statement(P)
          [] token.kind = "Return" -> parser_return_statement(P)
          [] token.kind = "RightCurly" -> Parsed(P0, StatementBlock(<<>>))
          [] OTHER -> ParseFailed(P, ParsingError("Unknown", last_position(P)))

\* Parser::statement
parser_statement(P0) ==
    LET token == parser_peek(P0)
        P == parser_advance(P0)
    IN  CASE token.kind = "Identifier" -> expression_statement(P0)
          [] token.kind = "Print" -> print_statement(P)
          [] token.kind = "LeftCurly" -> block_statement(P)
          [] token.kind = "Let" -> variable_definition(P)
          [] token.kind = "Fun" -> function_definition(P)
          [] token.kind = "If" -> parser_if_statement(P)
          [] token.kind = "While" -> parser_while_statement(P)
          [] token.kind = "Return" -> parser_return_statement(P)
          [] OTHER -> ParseFailed(P, ParsingError("Unknown", last_position(P)))

(***************************************************************************)
(* The expression parser at work: Parser::expression on the tokens of      *)
(* written expressions.  An expression is written from its tree with the   *)
(* parentheses the grammar of the language requires and no others.         *)
(***************************************************************************)

MaxNodes == 2

BinaryOperators ==
    <<"Add", "Sub", "Mul", "Div", "Equal", "NotEqual", "Less", "LessOrEqual",
      "Greater", "GreaterOrEqual">>

UnaryOperators == <<"Negate", "Not">>

\* The k-th variable name: "a", "b", ...
NameOf(k) == <<96 + k>>

RECURSIVE Renamed(_, _)
\* The tree with every variable but f named d names later.
Renamed(t, d) ==
    CASE t.k = "Variable" -> Variable(<<t.name[1] + d>>)
      [] t.k = "UnaryOperation" -> UnaryOperation(t.op, Renamed(t.e, d))
      [] t.k = "FunctionCall" -> FunctionCall(t.name, <<Renamed(t.args[1], d)>>)
      [] t.k = "BinaryOperation" ->
           BinaryOperation(t.op, Renamed(t.a, d), Renamed(t.b, d))
      [] t.k = "Index" -> Index(Renamed(t.array, d), Renamed(t.index, d))

RECURSIVE Variables(_)
\* The number of variables of a tree, f apart.
Variables(t) ==
    CASE t.k = "Variable" -> 1
      [] t.k = "NumberLiteral" -> 0
      [] t.k = "UnaryOperation" -> Variables(t.e)
      [] t.k = "FunctionCall" -> Variables(t.args[1])
      [] t.k = "BinaryOperation" -> Variables(t.a) + Variables(t.b)
      [] t.k = "Index" -> Variables(t.array) + Variables(t.index)

RECURSIVE TreeCount(_)
RECURSIVE PairCount(_, _)
\* The number of expression trees of n operations: a prefix operator or a
\* call of f over a tree of n - 1, or a binary operator or an index over
\* two trees of n - 1 operations together.
TreeCount(n) ==
    IF n = 0 THEN 1
    ELSE (Len(UnaryOperators) + 1) * TreeCount(n - 1)
         + (Len(BinaryOperators) + 1) * PairCount(n - 1, n - 1)

\* The number of pairs of trees of i and n - i operations, i in 0..upto.
PairCount(n, upto) ==
    IF upto < 0 THEN 0
    ELSE PairCount(n, upto - 1) + TreeCount(upto) * TreeCount(n - upto)

RECURSIVE Tree(_, _)
RECURSIVE TreePair(_, _, _)
\* The k-th expression tree of n operations, k in 0..TreeCount(n) - 1, over
\* variables named "a", "b", ... in order of appearance.
Tree(n, k) ==
    LET below == IF n = 0 THEN 1 ELSE TreeCount(n - 1)
        pairs == IF n = 0 THEN 1 ELSE PairCount(n - 1, n - 1)
        prefixed == Len(UnaryOperators) * below
        j == k - prefixed - below
    IN  IF n = 0 THEN Variable(NameOf(1))
        ELSE IF k < prefixed
        THEN UnaryOperation(UnaryOperators[(k \div below) + 1], Tree(n - 1, k % below))
        ELSE IF k < prefixed + below
        THEN FunctionCall(Vf, <<Tree(n - 1, k - prefixed)>>)
        ELSE LET pair == TreePair(n - 1, 0, j % pairs)
                 right == Renamed(pair[2], Variables(pair[1]))
             IN  IF j \div pairs < Len(BinaryOperators)
                 THEN BinaryOperation(BinaryOperators[(j \div pairs) + 1],
                                      pair[1], right)
                 ELSE Index(pair[1], right)

\* The k-th pair of trees of i and n - i operations, i from `from` on.
TreePair(n, from, k) ==
    LET here == TreeCount(from) * TreeCount(n - from) IN
    IF k < here
    THEN <<Tree(from, k \div TreeCount(n - from)),
           Tree(n - from, k % TreeCount(n - from))>>
    ELSE TreePair(n, from + 1, k - here)

\* The inputs: an expression of up to MaxNodes operations; an assignment
\* `target = value` with up to MaxNodes operations in the target and the
\* value together; an assignment `1 = value` to a literal; a chain
\* `a = b = value`.  The target is the tree Tree(n, k) and the value the
\* tree Tree(m, j).
InputsOf(kind, n, m) ==
    [kind : {kind}, n : {n}, k : 0..(TreeCount(n) - 1), m : {m},
     j : 0..(TreeCount(m) - 1)]

ParserInputs ==
    UNION ({InputsOf("expression", n, 0) : n \in 0..MaxNodes}
           \cup UNION {{InputsOf("assignment", n, m) : m \in 0..(MaxNodes - n)} :
                         n \in 0..MaxNodes}
           \cup {InputsOf("literal", 0, m) : m \in 0..MaxNodes}
           \cup {InputsOf("chain", 0, m) : m \in 0..MaxNodes})

\* The target and the value of an input.
TargetOf(p) == IF p.kind = "literal" THEN NumberLiteral(1) ELSE Tree(p.n, p.k)
ValueOf(p) ==
    Renamed(Tree(p.m, p.j), IF p.kind = "chain" THEN 2 ELSE Variables(TargetOf(p)))

\* The token of a binary operator.
OperatorToken(op) ==
    CASE op = "Add" -> Token("Plus")
      [] op = "Sub" -> Token("Minus")
      [] op = "Mul" -> Token("Star")
      [] op = "Div" -> Token("Slash")
      [] op = "Equal" -> Token("EqualEqual")
      [] op = "NotEqual" -> Token("BangEqual")
      [] op = "Less" -> Token("Less")
      [] op = "LessOrEqual" -> Token("LessEqual")
      [] op = "Greater" -> Token("Greater")
      [] op = "GreaterOrEqual" -> Token("GreaterEqual")

\* The levels of the grammar, the tighter the higher: equality, comparison,
\* term, factor, prefix operators, postfix call and index, operands.
Level(t) ==
    CASE t.k = "BinaryOperation" ->
           (CASE t.op \in {"Equal", "NotEqual"} -> 1
              [] t.op \in {"Less", "LessOrEqual", "Greater", "GreaterOrEqual"} -> 2
              [] t.op \in {"Add", "Sub"} -> 3
              [] t.op \in {"Mul", "Div"} -> 4)
      [] t.k = "UnaryOperation" -> 5
      [] t.k \in {"Index", "FunctionCall"} -> 6
      [] OTHER -> 7

RECURSIVE Written(_)
\* The tokens of an expression.  An operand is parenthesised when it is of a
\* looser level than its place takes: the right operand of a binary
\* operator must be tighter than the operator, the left operand as tight;
\* the operand of a prefix operator is a prefix or postfix expression; the
\* array of an index is a postfix expression.
Written(t) ==
    LET Operand(e, level) ==
            IF Level(e) < level
            THEN <<Token("LeftParen")>> \o Written(e) \o <<Token("RightParen")>>
            ELSE Written(e)
    IN  CASE t.k = "Variable" -> <<TokenIdentifier(t.name)>>
          [] t.k = "NumberLiteral" -> <<TokenNumber(t.n)>>
          [] t.k = "BinaryOperation" ->
               Operand(t.a, Level(t)) \o <<OperatorToken(t.op)>>
                   \o Operand(t.b, Level(t) + 1)
          [] t.k = "UnaryOperation" ->
               <<Token(IF t.op = "Negate" THEN "Minus" ELSE "Bang")>>
                   \o Operand(t.e, 5)
          [] t.k = "Index" ->
               Operand(t.array, 6) \o <<Token("LeftSquare")>> \o Written(t.index)
                   \o <<Token("RightSquare")>>
          [] t.k = "FunctionCall" ->
               <<TokenIdentifier(t.name), Token("LeftParen")>> \o Written(t.args[1])
                   \o <<Token("RightParen")>>

\* The tokens of an input.
WrittenInput(input) ==
    CASE input.kind = "expression" -> Written(TargetOf(input))
      [] input.kind \in {"assignment", "literal"} ->
           Written(TargetOf(input)) \o <<Token("Equal")>> \o Written(ValueOf(input))
      [] input.kind = "chain" ->
           <<TokenIdentifier(NameOf(1)), Token("Equal"), TokenIdentifier(NameOf(2)),
             Token("Equal")>> \o Written(ValueOf(input))

\* The SourceTokens of a line of tokens, one column each.
SourceTokens(tokens) ==
    [i \in 1..Len(tokens) |-> with_position(tokens[i], Position(1, i))]

NoParse == [op |-> "none", result |-> <<>>]

\* No parser yet.
InitParser ==
    /\ prog = IdleProgram
    /\ parser = <<>>
    /\ the_program = <<>>
    /\ lexer = <<>>
    /\ last = NoParse
    /\ build = "debug"
    /\ script = <<>>
    /\ stack = <<>>
    /\ frames = <<>>
    /\ globals = std_lib
    /\ heap = <<>>
    /\ out = <<>>
    /\ status = "idle"
    /\ err = NoError
    /\ calls = <<>>
    /\ cs = CompilerDefault("debug")
    /\ scopes = <<>>

\* Parser::new over the tokens of a written input.
ParserNew ==
    /\ status = "idle"
    /\ \E input \in ParserInputs :
          /\ prog' = input
          /\ parser' = parser_new(SourceTokens(WrittenInput(input)))
    /\ status' = "running"
    /\ UNCHANGED <<last, err, build, script, stack, frames, globals, heap, out,
                   calls, cs, scopes, lexer, the_program>>

\* Parser::expression on the tokens that are left; a ParsingError ends the
\* parsing.
ParseExpression ==
    /\ status = "running"
    /\ parser.tokens # <<>>
    /\ \E r \in {parser_expression(parser)} :
          /\ parser' = r.parser
          /\ status' = IF r.error.e = "none" THEN "running" ELSE "error"
          /\ err' = r.error
          /\ last' = [op |-> "expression", result |-> <<r>>]
    /\ UNCHANGED <<prog, build, script, stack, frames, globals, heap, out,
                   calls, cs, scopes, lexer, the_program>>

NextParser == ParserNew \/ ParseExpression

SpecParser == InitParser /\ [][NextParser]_vars

(***************************************************************************)
(* The statement parser at work: Parser::parse_program on token streams,   *)
(* one statement a step.  A stream is a first token of any kind followed   *)
(* by up to MaxTokens - 1 tokens of the kinds that open, separate and      *)
(* close statements, or one of the listed longer streams.                  *)
(***************************************************************************)

MaxTokens == 3

\* The tokens a stream goes on with.
CoreTokens ==
    {TokenIdentifier(Va), Token("Semicolon"), Token("LeftParen"),
     Token("RightParen"), Token("LeftCurly"), Token("RightCurly"),
     Token("Comma"), Token("Print")}

\* The tokens a stream starts with.
FirstTokens ==
    CoreTokens \cup
    {TokenNumber(1), TokenStringLiteral(<<97>>), Token("True"), Token("False"),
     Token("Nil"), Token("Minus"), Token("Bang"), Token("LeftSquare"),
     Token("Let"), Token("Fun"), Token("If"), Token("Else"), Token("While"),
     Token("Return"), Token("Equal"), Token("Plus"), Token("EndOfFile")}

\* `if (a) a; else a;`, `while (a) { }`, `fun a(a, a) { }`, `let a = a;`,
\* `let a = a` with no `;`, `[a; a];`, `a; print a b; a;`, `return a print a;`,
\* `{ a; }`, `a(a);`, `a(a,` and `{ { a;`
ListedStreams ==
    LET a == TokenIdentifier(Va)
        b == TokenIdentifier(Vb)
        T(kind) == Token(kind)
    IN  {<<T("If"), T("LeftParen"), a, T("RightParen"), a, T("Semicolon"),
           T("Else"), a, T("Semicolon")>>,
         <<T("While"), T("LeftParen"), a, T("RightParen"), T("LeftCurly"),
           T("RightCurly")>>,
         <<T("Fun"), a, T("LeftParen"), a, T("Comma"), a, T("RightParen"),
           T("LeftCurly"), T("RightCurly")>>,
         <<T("Let"), a, T("Equal"), a, T("Semicolon")>>,
         <<T("Let"), a, T("Equal"), a>>,
         <<T("LeftSquare"), a, T("Semicolon"), a, T("RightSquare"),
           T("Semicolon")>>,
         <<a, T("Semicolon"), T("Print"), a, b, T("Semicolon"), a,
           T("Semicolon")>>,
         <<T("Return"), a, T("Print"), a, T("Semicolon")>>,
         <<T("LeftCurly"), a, T("Semicolon"), T("RightCurly")>>,
         <<a, T("LeftParen"), a, T("RightParen"), T("Semicolon")>>,
         <<a, T("LeftParen"), a, T("Comma")>>,
         <<T("LeftCurly"), T("LeftCurly"), a, T("Semicolon")>>}

NoStatement == [op |-> "none", before |-> <<>>, result |-> <<>>]

InitProgram ==
    /\ prog = IdleProgram
    /\ parser = <<>>
    /\ the_program = <<>>
    /\ lexer = <<>>
    /\ last = NoStatement
    /\ build = "debug"
    /\ script = <<>>
    /\ stack = <<>>
    /\ frames = <<>>
    /\ globals = std_lib
    /\ heap = <<>>
    /\ out = <<>>
    /\ status = "idle"
    /\ err = NoError
    /\ calls = <<>>
    /\ cs = CompilerDefault("debug")
    /\ scopes = <<>>

\* Parser::new over a token stream, and parse_program up to its loop.
ParseProgramBegin ==
    /\ status = "idle"
    /\ \E tokens \in
            {<<>>} \cup ListedStreams
            \cup UNION {{<<first>> \o rest : first \in FirstTokens,
                                             rest \in [1..n -> CoreTokens]} :
                        n \in 0..(MaxTokens - 1)} :
          /\ prog' = [kind |-> "tokens", tokens |-> tokens]
          /\ parser' = parser_new(SourceTokens(tokens))
    /\ the_program' = <<>>
    /\ status' = "running"
    /\ UNCHANGED <<last, err, build, script, stack, frames, globals, heap, out,
                   calls, cs, scopes, lexer>>

\* One turn of the loop of parse_program: `self.tokens.peek().is_some()`,
\* then `program.add_statement(self.statement()?)`.
ParseStatement ==
    /\ status = "running"
    /\ parser.tokens # <<>>
    /\ \E r \in {parser_statement(parser)} :
          /\ parser' = r.parser
          /\ status' = IF r.error.e = "none" THEN "running" ELSE "error"
          /\ err' = r.error
          /\ the_program' = IF r.error.e = "none"
                            THEN Append(the_program, r.expr[1]) ELSE <<>>
          /\ last' = [op |-> "statement", before |-> parser, result |-> <<r>>]
    /\ UNCHANGED <<prog, build, script, stack, frames, globals, heap, out,
                   calls, cs, scopes, lexer>>

\* The loop of parse_program ends: Ok(program).
ParseProgramEnd ==
    /\ status = "running"
    /\ parser.tokens = <<>>
    /\ status' = "done"
    /\ last' = [op |-> "parse_program", before |-> parser, result |-> <<>>]
    /\ UNCHANGED <<prog, parser, the_program, err, build, script, stack, frames,
                   globals, heap, out, calls, cs, scopes, lexer>>

NextProgram == ParseProgramBegin \/ ParseStatement \/ ParseProgramEnd

SpecProgram == InitProgram /\ [][NextProgram]_vars

\* parse_program as a call that, once made, goes on until it returns.
SpecProgramFair ==
    SpecProgram /\ WF_vars(ParseStatement) /\ WF_vars(ParseProgramEnd)

(***************************************************************************)
(* Properties of a run (Spec)                                              *)
(***************************************************************************)

\* C1: whenever run_script returns without an error, the value stack is
\* empty: the main loop left only the script's slot, which run_script popped.
C1_StackEmptyAfterRunScript == status = "done" => stack = <<>>

\* C2: Call(n) on a Function at height h pushes a frame with stack base
\* h-n-1 and ip 0; after the matching Return the frames are as many as before
\* the Call, the height is h-n, the callable's slot holds the returned value
\* and the slots below it are unchanged.
C2_CallReturnFrameDiscipline ==
    /\ (last.op.op = "Call" /\ Len(frames) > last.nframes) =>
          /\ Top(frames).stack_top = Len(last.stack) - last.op.arg - 1
          /\ Top(frames).ip = 0
    /\ (last.op.op = "Return" /\ last.call # <<>> /\ status = "running") =>
          /\ Len(frames) = last.call[1].nframes
          /\ Len(stack) = last.call[1].h - last.call[1].n
          /\ stack[Len(stack)] = Top(last.stack)
          /\ SubSeq(stack, 1, Len(stack) - 1)
                = SubSeq(last.call[1].stack, 1, Len(stack) - 1)

\* C3: whenever LoadLocal(i) or StoreLocal(i) is about to execute, the slot
\* stack_base + i + 1 exists on the stack.
C3_LocalSlotExists ==
    (HasOp /\ CurOp.op \in {"LoadLocal", "StoreLocal"}) =>
        Top(frames).stack_top + CurOp.arg + 1 < Len(stack)

\* The ip a jump at an address leaves: CallFrame::advance has moved the ip
\* past the jump when CallFrame::jump adds the offset.
jump_target(address, op) == address + 1 + op.arg

RECURSIVE JumpsLandWithin(_, _)
\* Every jump of the chunk has its target in 0..(number of ops - 1 + slack),
\* and every jump of the chunks of its Function constants in
\* 0..(number of ops - 1).
JumpsLandWithin(chunk, slack) ==
    /\ \A i \in 1..Len(chunk.ops) :
          IsJump(chunk.ops[i]) =>
              /\ 0 <= jump_target(i - 1, chunk.ops[i])
              /\ jump_target(i - 1, chunk.ops[i]) < Len(chunk.ops) + slack
    /\ \A j \in 1..Len(chunk.constants) :
          chunk.constants[j].t = "Function" =>
              JumpsLandWithin(chunk.constants[j].chunk, 0)

\* C4 (as stated): after compilation the target of every Jump and JumpIfFalse
\* of every chunk is an op index of that chunk, 0 <= target < number of ops.
C4_JumpTargetsAreOpIndices ==
    script # <<>> => JumpsLandWithin(script[1].chunk, 0)

\* C4 (amended): after compilation the target of every Jump and JumpIfFalse is
\* an op index of its chunk or, in the script chunk, the end of the chunk:
\* 0 <= target <= number of ops in the script chunk, 0 <= target < number of
\* ops in a function chunk.
C4_JumpTargetsWithinChunkOrAtEnd ==
    script # <<>> => JumpsLandWithin(script[1].chunk, 1)

\* A script that ends in an `if` ran to its end through the JumpIfFalse
\* whose target is the end of the chunk.
C4_Witness ==
    /\ status = "done"
    /\ script # <<>>
    /\ \E i \in 1..Len(script[1].chunk.ops) :
          /\ IsJump(script[1].chunk.ops[i])
          /\ jump_target(i - 1, script[1].chunk.ops[i]) = Len(script[1].chunk.ops)

\* The line Vm::print writes for a number.
NumberLine(n) == NumToString(n) \o <<10>>

\* C5: two bindings of one array see each other's index writes: after
\* `b = a` and a write of y at index x through a or b, both a[x] and b[x]
\* read y.  Two bindings of one Text do not: after a write through one, the
\* other still reads the text as it was.
C5_ArrayAliasesShareTextDoesNot ==
    /\ prog.kind \in {"array_alias", "text_alias"} => status \in {"running", "done"}
    /\ (prog.kind = "array_alias" /\ status = "done") =>
          out = <<NumberLine(prog.y), NumberLine(prog.y)>>
    /\ (prog.kind = "text_alias" /\ status = "done") =>
          /\ Len(out) = 2
          /\ out[IF prog.op = "a" THEN 2 ELSE 1] = <<97, 98, 10>>
          /\ out[IF prog.op = "a" THEN 1 ELSE 2]
                = (IF prog.x = 0 THEN <<99, 98, 10>> ELSE <<97, 99, 10>>)

\* A write of a value other than the initial one through b was read through
\* a and through b.
C5_Witness ==
    /\ prog.kind = "array_alias"
    /\ prog.op = "b"
    /\ prog.y # 0
    /\ status = "done"
    /\ out = <<NumberLine(prog.y), NumberLine(prog.y)>>
    /\ \E g \in DOMAIN globals : globals[g].t = "ArrayRef"

\* The operands of `print LHS OP RHS;` as values.
LhsValue == IF prog.kind = "binary" THEN Number(prog.x) ELSE Text(Texts[prog.x])
RhsValue == IF prog.kind = "binary" THEN Number(prog.y) ELSE Text(Texts[prog.y])

\* The step just taken executed the binary instruction of `print LHS OP RHS;`.
BinaryInstructionDone ==
    /\ prog.kind \in {"binary", "concat"}
    /\ last.op.op \in {"Add", "Sub", "Ge", "Le", "Cmp"}
    /\ status = "running"

FirstPopped == last.stack[Len(last.stack)]
SecondPopped == last.stack[Len(last.stack) - 1]

\* LHS (+) RHS for the instruction the operator is lowered to.
InstructionResult(instruction, lhs, rhs) ==
    CASE instruction = "Sub" -> Number(lhs.n - rhs.n)
      [] instruction = "Ge" -> Bool(lhs.n >= rhs.n)
      [] instruction = "Le" -> Bool(lhs.n <= rhs.n)
      [] instruction = "Cmp" -> Bool(lhs.n = rhs.n)
      [] instruction = "Add" -> Text(lhs.s \o rhs.s)

\* C6 (as stated): at the binary instruction of LHS (+) RHS the RHS is the
\* topmost value and popped first, the LHS is popped second, and the value
\* pushed is LHS (+) RHS, that is (second popped) (+) (first popped).
C6_RhsPoppedFirst ==
    BinaryInstructionDone =>
        /\ FirstPopped = RhsValue
        /\ SecondPopped = LhsValue
        /\ Top(stack) = InstructionResult(last.op.op, SecondPopped, FirstPopped)

\* C6 (amended): at the binary instruction of LHS (+) RHS the LHS is the
\* topmost value and popped first, the RHS is popped second, and the value
\* pushed is LHS (+) RHS, that is (first popped) (+) (second popped): for Ge
\* and Le the Bool (first popped >= second popped), (first popped <= second
\* popped), for Text Add the first popped followed by the second popped.
C6_LhsPoppedFirst ==
    BinaryInstructionDone =>
        /\ FirstPopped = LhsValue
        /\ SecondPopped = RhsValue
        /\ Top(stack) = InstructionResult(last.op.op, LhsValue, RhsValue)
        /\ Top(stack) = InstructionResult(last.op.op, FirstPopped, SecondPopped)

\* Ge has just compared two different numbers.
C6_Witness ==
    /\ BinaryInstructionDone
    /\ last.op.op = "Ge"
    /\ prog.x < prog.y
    /\ Top(stack) = Bool(FALSE)

\* The line `print x OP y;` is to write, x the left operand.
ExpectedLine(p) ==
    CASE p.op = "Sub" -> NumberLine(p.x - p.y)
      [] p.op = "Less" -> BoolToString(p.x < p.y) \o <<10>>
      [] p.op = "LessOrEqual" -> BoolToString(p.x <= p.y) \o <<10>>
      [] p.op = "Greater" -> BoolToString(p.x > p.y) \o <<10>>
      [] p.op = "GreaterOrEqual" -> BoolToString(p.x >= p.y) \o <<10>>
      [] p.op = "Equal" -> BoolToString(p.x = p.y) \o <<10>>
      [] p.op = "NotEqual" -> BoolToString(p.x # p.y) \o <<10>>
      [] p.op = "Add" -> Texts[p.x] \o Texts[p.y] \o <<10>>

\* C7: `print x OP y;` runs without an error and prints the value of x OP y,
\* x the left operand, for OP among - < <= > >= == !=, and `print s + t;`
\* prints s followed by t.
C7_PrintsLeftOpRight ==
    prog.kind \in {"binary", "concat"} =>
        /\ status \in {"running", "done"}
        /\ status = "done" => out = <<ExpectedLine(prog)>>

\* `print 1 - 2;` has printed -1 and `print x < y;`, x below y, true.
C7_Witness ==
    /\ status = "done"
    /\ prog.kind = "binary"
    /\ prog.x = 1
    /\ prog.y = 2
    /\ \/ prog.op = "Sub" /\ out = << <<45, 49, 10>> >>
       \/ prog.op = "Less" /\ out = << <<116, 114, 117, 101, 10>> >>

\* What `print f(x) OP f(y); print (b = x) OP (b = y); print b;` writes
\* when the right operand is evaluated first: y and x from the calls, the
\* value of x OP y twice, and x, the value stored last.
ExpectedOrder(p) ==
    <<NumberLine(p.y), NumberLine(p.x), ExpectedLine(p), ExpectedLine(p),
      NumberLine(p.x)>>

\* C36: in `a OP b` the side effects of the right operand b (the line its
\* call prints, its store to a global) happen before those of the left
\* operand a, and the operator's result comes after both.
C36_RightOperandFirst ==
    prog.kind = "order" =>
        /\ status \in {"running", "done"}
        /\ Len(out) <= Len(ExpectedOrder(prog))
        /\ out = SubSeq(ExpectedOrder(prog), 1, Len(out))
        /\ status = "done" => out = ExpectedOrder(prog)

\* `print f(1) - f(2); print (b = 1) - (b = 2); print b;` has written
\* 2, 1, -1, -1, 1.
C36_Witness ==
    /\ prog.kind = "order"
    /\ prog.op = "Sub"
    /\ status = "done"
    /\ out = << <<50, 10>>, <<49, 10>>, <<45, 49, 10>>, <<45, 49, 10>>, <<49, 10>> >>

\* The name the op about to run refers to: constants[k] of the frame's chunk.
GlobalName == Top(frames).chunk.constants[CurOp.arg + 1].s

\* C38: StoreGlobal(k) binds the name constants[k] to the value on top of
\* the stack and changes nothing else: the stack, the frames (but for the
\* ip, moved past the op), every other binding, the arrays and the output
\* stay as they were, and the run goes on.  LoadGlobal of a name with no
\* binding ends the run with UndefinedVariable(name) and pushes nothing.
C38_GlobalsFrameEffect ==
    [][ /\ (HasOp /\ CurOp.op = "StoreGlobal") =>
              /\ stack' = stack
              /\ frames' = Advanced.frames
              /\ DOMAIN globals' = DOMAIN globals \cup {GlobalName}
              /\ globals'[GlobalName] = Top(stack)
              /\ \A g \in DOMAIN globals \ {GlobalName} : globals'[g] = globals[g]
              /\ heap' = heap
              /\ out' = out
              /\ status' = "running"
        /\ (HasOp /\ CurOp.op = "LoadGlobal" /\ GlobalName \notin DOMAIN globals) =>
              /\ status' = "error"
              /\ err' = [e |-> "UndefinedVariable", name |-> GlobalName]
              /\ stack' = stack
              /\ globals' = globals
      ]_vars

\* In `print (b = 1) - (b = 2);` the second store has run: b, bound to 2
\* by the first, is bound to 1, the value still on top of the stack.
C38_Witness ==
    /\ prog.kind = "order"
    /\ prog.x = 1
    /\ prog.y = 2
    /\ status = "running"
    /\ last.op.op = "StoreGlobal"
    /\ stack = last.stack
    /\ Top(stack) = Number(1)
    /\ Vb \in DOMAIN globals
    /\ globals[Vb] = Number(1)

\* C11: declaring a local whose name is already declared at the current
\* depth (in the same block, or as a parameter of the function whose body
\* declares it) fails with VariableAlreadyDeclared(name); declaring a name
\* that exists only at an outer depth or as a global succeeds and shadows it
\* until the scope ends; re-declaring a global at depth 0 succeeds and
\* overwrites the global.
C11_Redeclaration ==
    prog.kind = "declare" =>
        IF prog.op = "a" /\ prog.x \in {0, 4}
        THEN /\ status = "compile_error"
             /\ err = VariableAlreadyDeclared(Va)
        ELSE /\ status \in {"running", "done"}
             /\ status = "done" =>
                   out = <<NumberLine(2),
                           NumberLine(IF prog.op = "a" /\ prog.x = 2 THEN 2 ELSE 1)>>

\* `let a = 1; let a = 2; print a; print a;` at depth 0 ran and a reads 2.
C11_Witness ==
    /\ prog.kind = "declare"
    /\ prog.op = "a"
    /\ prog.x = 2
    /\ status = "done"
    /\ globals[Va] = Number(2)
    /\ out = <<NumberLine(2), NumberLine(2)>>

\* The lines a loop program prints when the condition is evaluated before
\* each iteration, the body runs only while it is true and the statement
\* after the loop runs next.
WhileOutput(p) ==
    CASE p.x = 0 -> <<NumberLine(9)>>
      [] p.x = 1 -> [i \in 1..p.y |-> NumberLine(i - 1)] \o <<NumberLine(9)>>
      [] p.x = 2 -> [i \in 1..p.y |-> NumberLine(p.y + 1 - i)] \o <<NumberLine(9)>>
      [] p.x = 3 -> <<NumberLine(8)>> \o [i \in 1..p.y |-> NumberLine(p.y + 1 - i)]
                       \o <<NumberLine(9)>>

\* C13: a `while (c) body` compiles wherever it stands in its chunk, also as
\* the first statement of a program or of a function body, and runs body once
\* for each time c is true, c evaluated before each iteration, then continues
\* with the statement after the loop.
C13_WhileCompilesAndLoops ==
    prog.kind = "while" =>
        /\ status \in {"running", "done"}
        /\ status = "done" => out = WhileOutput(prog)

\* The lines a conditional program prints when exactly the branch the
\* condition selects runs and `print 9;` runs next.
IfOutput(p) ==
    LET c == CondC(p)
        d == CondD(p)
        line(n) == <<NumberLine(n)>>
    IN  (CASE p.x = 0 -> IF c THEN line(1) ELSE <<>>
           [] p.x = 1 -> IF c THEN line(1) ELSE line(2)
           [] p.x \in {2, 3} -> <<>>
           [] p.x = 4 -> IF c THEN line(1) ELSE IF d THEN line(2) ELSE line(3)
           [] p.x = 5 -> IF c THEN line(1) ELSE <<>>
           [] p.x = 6 -> IF c THEN <<>> ELSE line(2))
        \o line(9)

\* C14: of `if (c) t else e` (and `if (c) t`) exactly one branch runs, t when
\* c is true, e (or nothing) when c is false, and execution continues with
\* the statement after the whole conditional, also for empty branches and
\* else-if chains.
C14_ExactlyOneBranch ==
    prog.kind = "if" =>
        /\ status \in {"running", "done"}
        /\ status = "done" => out = IfOutput(prog)

\* `if (false) print 1; else if (true) print 2; else print 3; print 9;` has
\* printed 2 and 9.
C14_Witness ==
    /\ prog.kind = "if"
    /\ prog.x = 4
    /\ ~CondC(prog)
    /\ CondD(prog)
    /\ status = "done"
    /\ out = <<NumberLine(2), NumberLine(9)>>

RECURSIVE FunctionsEndInNilReturn(_)
\* The chunk of every Function constant of the chunk, and of the chunks of
\* those, ends with Nil, Return.
FunctionsEndInNilReturn(chunk) ==
    \A j \in 1..Len(chunk.constants) :
        chunk.constants[j].t = "Function" =>
            LET ops == chunk.constants[j].chunk.ops IN
            /\ Len(ops) >= 2
            /\ ops[Len(ops) - 1] = Op0("Nil")
            /\ ops[Len(ops)] = Op0("Return")
            /\ FunctionsEndInNilReturn(chunk.constants[j].chunk)

\* The frame of a user function is at the closing Return of its chunk.
AtClosingReturn ==
    /\ HasOp
    /\ Len(frames) >= 2
    /\ Top(frames).ip = Len(Top(frames).chunk.ops) - 1

\* C15: every compiled function chunk ends with Nil, Return; while a function
\* runs its ip stays inside its chunk; the closing Return takes Nil as the
\* result, and the Return leaves its result on top of the caller's stack.
C15_FunctionsEndInNilReturn ==
    /\ script # <<>> => FunctionsEndInNilReturn(script[1].chunk)
    /\ status = "running" =>
          \A i \in 2..Len(frames) : frames[i].ip < Len(frames[i].chunk.ops)
    /\ AtClosingReturn => (stack # <<>> /\ Top(stack) = Nil)
    /\ (last.op.op = "Return" /\ status = "running") =>
          Top(stack) = Top(last.stack)
    /\ (prog.kind = "listed" /\ prog.i = 20 /\ status = "done") =>
          out = <<NumberLine(1), <<110, 105, 108, 10>> >>

\* `fun f() { print 1; } print f();` has printed 1 and nil.
C15_Witness ==
    /\ prog.kind = "listed"
    /\ prog.i = 20
    /\ status = "done"
    /\ out = <<NumberLine(1), <<110, 105, 108, 10>> >>

\* The step just taken executed Call(n) with a callable slot on the stack.
CallDone == last.op.op = "Call" /\ Len(last.stack) > last.op.arg

\* The value Call(n) finds n slots below the top.
CalledValue == last.stack[Len(last.stack) - last.op.arg]

\* Call(n) must refuse the value: not callable, or of another arity.
CallRefused ==
    \/ CalledValue.t \notin {"Function", "NativeFunction"}
    \/ CalledValue.arity # last.op.arg

\* C16: Call(n) on a Function or NativeFunction of an arity other than n, or
\* on a value that is not callable, fails with TypeMismatch, pushes no frame
\* and leaves the stack as it was; Call(n) on a Function of arity n pushes a
\* frame.
C16_CallTypeMismatch ==
    CallDone =>
        /\ CallRefused =>
              /\ status = "error"
              /\ err = VmError("TypeMismatch")
              /\ stack = last.stack
              /\ Len(frames) = last.nframes
        /\ (CalledValue.t = "Function" /\ ~CallRefused) =>
              /\ status = "running"
              /\ Len(frames) = last.nframes + 1

\* The native len was called with two arguments.
C16_Witness ==
    /\ CallDone
    /\ CalledValue.t = "NativeFunction"
    /\ last.op.arg = 2
    /\ err = VmError("TypeMismatch")
    /\ stack = last.stack

\* The step just taken executed Cmp with two operands on the stack.
CmpDone == last.op.op = "Cmp" /\ Len(last.stack) >= 2

\* C20: Cmp pops two operands and pushes the Bool of their equality only for
\* two numbers, two Bools or two texts; for every other pair, of different
\* variants or of one variant such as nil and nil or two arrays, it fails
\* with TypeMismatch and pushes nothing.
C20_CmpOperands ==
    CmpDone =>
        LET a == last.stack[Len(last.stack)]
            b == last.stack[Len(last.stack) - 1]
            rest == SubSeq(last.stack, 1, Len(last.stack) - 2)
        IN  IF a.t = b.t /\ a.t \in {"Number", "Bool", "Text"}
            THEN /\ status = "running"
                 /\ stack = Append(rest, Bool(a = b))
            ELSE /\ status = "error"
                 /\ err = VmError("TypeMismatch")
                 /\ stack = rest

\* `print nil == nil;` failed at the Cmp.
C20_Witness ==
    /\ CmpDone
    /\ last.stack[Len(last.stack)] = Nil
    /\ last.stack[Len(last.stack) - 1] = Nil
    /\ err = VmError("TypeMismatch")
    /\ Len(stack) = Len(last.stack) - 2

\* The frame is at a Call(n) that finds a native function of arity n, n slots
\* below the top of the stack.
AtNativeCall ==
    /\ HasOp
    /\ CurOp.op = "Call"
    /\ Len(stack) > CurOp.arg
    /\ stack[Len(stack) - CurOp.arg].t = "NativeFunction"
    /\ stack[Len(stack) - CurOp.arg].arity = CurOp.arg

\* C21: a Call(n) of len, as_char or as_string that accepts its argument
\* removes the n arguments and the callable, pushes one result over the
\* untouched rest of the stack, so that the stack is n lower, pushes no frame
\* and leaves the frame at the instruction after the Call.
C21_NativeCallContract ==
    [][(AtNativeCall /\ status' = "running") =>
          /\ Len(stack') = Len(stack) - CurOp.arg
          /\ SubSeq(stack', 1, Len(stack') - 1)
                = SubSeq(stack, 1, Len(stack) - CurOp.arg - 1)
          /\ frames' = [frames EXCEPT ![Len(frames)].ip = @ + 1]
          /\ out' = out]_vars

\* len("ab") returned 2 to the script, which runs on in its only frame.
C21_Witness ==
    /\ prog.kind = "native"
    /\ last.op = Op1("Call", 1)
    /\ CalledValue = NativeFunction(NameLen, 1)
    /\ status = "running"
    /\ Top(stack) = Number(2)
    /\ Len(stack) = Len(last.stack) - 1
    /\ Len(frames) = 1

\* The step just taken called the native len with one argument.
LenCalled ==
    /\ CallDone
    /\ last.op.arg = 1
    /\ CalledValue = NativeFunction(NameLen, 1)

\* C22: len returns the number of items of an array the Array instruction
\* created and the number of characters of a Text, and fails with
\* TypeMismatch on every other argument.
C22_NativeLen ==
    LenCalled =>
        LET value == Top(last.stack) IN
        CASE value.t = "ArrayRef" ->
               /\ status = "running"
               /\ Top(stack) = Number(Len(heap[value.ref]))
          [] value.t = "Text" ->
               /\ status = "running"
               /\ Top(stack) = Number(Len(value.s))
          [] OTHER ->
               /\ status = "error"
               /\ err = VmError("TypeMismatch")

\* The step just taken called the native as_string in a program
\* `print X; print as_string(X);`, whose first line is on the sink.
AsStringCalled ==
    /\ prog.kind = "native"
    /\ CallDone
    /\ last.op.arg = 1
    /\ CalledValue = NativeFunction(NameAsString, 1)

\* C23: for a value x of every variant, as_string(x) is the Text of the line
\* `print x` writes, less the newline that ends it.
C23_AsStringIsPrintedLine ==
    AsStringCalled =>
        /\ status = "running"
        /\ Top(stack).t = "Text"
        /\ out = << Top(stack).s \o <<10>> >>

\* C24: once an instruction has failed, in a native function or in a nested
\* frame as anywhere else, the run is over: no step is taken from a machine
\* that holds an error, the failing step writes nothing to the sink, and
\* every step leaves the lines written before it in place.
C24_ErrorEndsRun ==
    [][/\ err = NoError
       /\ Len(out') >= Len(out)
       /\ SubSeq(out', 1, Len(out)) = out
       /\ (err' # NoError => out' = out)]_vars

\* len(1) failed in the frame of f after `print 1`: the line is on the sink,
\* and `print 2` of f and `print 3` of the script are still ahead.
C24_Witness ==
    /\ prog.kind = "listed"
    /\ prog.i = 22
    /\ status = "error"
    /\ err = VmError("TypeMismatch")
    /\ last.op = Op1("Call", 1)
    /\ Len(frames) = 2
    /\ out = << <<49, 10>> >>
    /\ Top(frames).ip < Len(Top(frames).chunk.ops)

\* C33: a Return executed in the script's frame ends the script normally:
\* the frame is popped with no unwrap of a missing current frame,
\* run_script returns Ok and the value stack is empty.
C33_TopLevelReturn ==
    (last.op.op = "Return" /\ last.nframes = 1) =>
        /\ frames = <<>>
        /\ status = "done"
        /\ err = NoError
        /\ stack = <<>>

(***************************************************************************)
(* Properties of the lexer (SpecLexer)                                     *)
(***************************************************************************)

\* next_token has returned a token.
Returned == last.token # <<>>

\* The token next_token returned last, and the lexer it was called on.
ReturnedToken == last.token[1]
LexerBefore == last.before[1]

IsEndOfFile(token) == token.kind.kind = "EndOfFile"

Ascii(source) == \A i \in 1..Len(source) : source[i] < 128

\* C25: on every source the calls of next_token end with EndOfFile: a call
\* never aborts, a call that returns another token has consumed a character
\* at least, so that the tokens before EndOfFile are no more than the
\* characters, and a call after EndOfFile returns EndOfFile and leaves pos,
\* line and column as they were.
C25_ReachesEndOfFile ==
    /\ status # "panic"
    /\ Returned =>
          /\ ~IsEndOfFile(ReturnedToken) => lexer.pos > LexerBefore.pos
          /\ Len(last.tokens) - last.eofs <= Len(lexer.source)
          /\ last.eofs >= 2 =>
                /\ IsEndOfFile(ReturnedToken)
                /\ lexer.pos = LexerBefore.pos
                /\ lexer.line = LexerBefore.line
                /\ lexer.column = LexerBefore.column

\* The characters advance_token has an arm for.
StartsToken(c) ==
    \/ c \in DOMAIN Punctuation
    \/ c \in {33, 34, 47, 60, 61, 62, 95}
    \/ is_ascii_alphanumeric(c)

\* The characters of the source a token covers: those from start to pos.
Covered == SubSeq(lexer.source, lexer.start + 1, lexer.pos)

\* C26: the lexer never aborts; a token that starts at a character no token
\* starts with, any character that is not ASCII included, is Token::Error
\* and consumes that character alone, and no other token is Token::Error;
\* an identifier, a number and a string literal carry the characters of the
\* source they cover, whatever the characters before them.
C26_ErrorTokens ==
    /\ status # "panic"
    /\ (Returned /\ ~IsEndOfFile(ReturnedToken)) =>
          LET token == ReturnedToken.kind
              c == lexer.source[lexer.start + 1]
          IN  /\ token.kind = "Error" <=> ~StartsToken(c)
              /\ token.kind = "Error" => lexer.pos = lexer.start + 1
              /\ token.kind = "Identifier" => token.name = Covered
              /\ token.kind = "Number" => token.value = parse_f64(Covered).value
              /\ token.kind = "StringLiteral" =>
                    token.s = SubSeq(lexer.source, lexer.start + 2,
                                     IF lexer.pos > Len(lexer.source)
                                     THEN Len(lexer.source) ELSE lexer.pos - 1)

\* The 1-based index of the last character the lexer consumed.
LastConsumed ==
    IF lexer.pos > Len(lexer.source) THEN Len(lexer.source) ELSE lexer.pos

\* The line and the column of the character of index p of a source: 1 plus
\* the newlines before it, and its distance from the last of them.
PositionOf(source, p) ==
    LET newlines == {i \in 1..(p - 1) : source[i] = 10}
        line_start == IF newlines = {} THEN 0
                      ELSE CHOOSE i \in newlines : \A j \in newlines : j <= i
    IN  Position(1 + Cardinality(newlines), p - line_start)

\* C27: the Position of every token but EndOfFile is the line and the column
\* of the last character the token consumed, in every source, with comments
\* and with string literals that hold a newline.
C27_PositionOfLastCharacter ==
    (Returned /\ ~IsEndOfFile(ReturnedToken)) =>
        ReturnedToken.source = PositionOf(lexer.source, LastConsumed)

(***************************************************************************)
(* Properties of the expression parser (SpecParser)                        *)
(***************************************************************************)

\* Parser::expression has returned for the written input.
ParsedInput(kind) == prog.kind = kind /\ last.result # <<>>

\* What Parser::expression returned.
ParseResult == last.result[1]

\* C28: an expression written with the parentheses that these rules require
\* parses to its tree: `*` and `/` bind tighter than `+` and `-`, these
\* tighter than `<`, `<=`, `>`, `>=`, these tighter than `==` and `!=`;
\* binary operators of one level associate to the left; a prefix `-` or `!`
\* binds tighter than every binary operator and looser than a postfix call
\* or index; parentheses override all of it.
C28_BindingPowers ==
    ParsedInput("expression") =>
        /\ ParseResult.error = NoError
        /\ ParseResult.expr = <<TargetOf(prog)>>
        /\ ParseResult.parser.tokens = <<>>

\* `-a[b]` parsed to Negate(Index(a, b)) and `a - b - c` to
\* Sub(Sub(a, b), c).
C28_Witness ==
    /\ ParsedInput("expression")
    /\ TargetOf(prog) \in
          {UnaryOperation("Negate", Index(Variable(<<97>>), Variable(<<98>>))),
           BinaryOperation("Sub",
               BinaryOperation("Sub", Variable(<<97>>), Variable(<<98>>)),
               Variable(<<99>>))}
    /\ ParseResult.expr = <<TargetOf(prog)>>

\* C29: `a = b = e` parses to AssignVariable(a, AssignVariable(b, e)).
C29_AssignmentRightAssociative ==
    ParsedInput("chain") =>
        /\ ParseResult.error = NoError
        /\ ParseResult.expr =
              <<AssignVariable(NameOf(1), AssignVariable(NameOf(2), ValueOf(prog)))>>

StatementParsed == last.op = "statement"

\* What Parser::statement returned, and the token its input started with.
StatementResult == last.result[1]
StatementStart == parser_peek(last.before).kind

StatementKeywords == {"Print", "LeftCurly", "Let", "Fun", "If", "While", "Return"}

\* C31: a statement that starts with none of `print`, `{`, `let`, `fun`,
\* `if`, `while`, `return` and is an expression followed by `;` yields
\* Statement::Expression of that expression and leaves the tokens after
\* the `;`, whatever the expression starts with.
C31_ExpressionStatements ==
    (StatementParsed /\ StatementStart \notin StatementKeywords) =>
        \A expr \in {expression_semicolon(last.before)} :
            expr.error.e = "none" =>
                StatementResult
                    = Parsed(expr.parser, StatementExpression(expr.expr[1]))

\* The expression of a print, let, return or expression statement, parsed
\* from the tokens that Parser::statement was given: Parsed with the parser
\* after it, or a failure when the statement has another form.
StatementBody ==
    LET P == parser_advance(last.before)
        named == parser_advance(P)
    IN  CASE StatementStart \in {"Print", "Return"} -> parser_expression(P)
          [] StatementStart = "Let" ->
               IF parser_peek(P).kind # "Identifier"
               THEN ParseFailed(P, ParsingError("Unknown", last_position(P)))
               ELSE IF parser_peek(named).kind = "Equal"
               THEN parser_expression(parser_advance(named))
               ELSE Parsed(named, NilLiteral)
          [] StatementStart \in StatementKeywords \ {"Print", "Return", "Let"} ->
               ParseFailed(P, ParsingError("Unknown", last_position(P)))
          [] OTHER -> parser_expression(last.before)

\* C32: a print, let, return or expression statement whose expression is
\* not followed by `;` yields MissingToken with expected `;` and no
\* statement; once a statement has failed, parse_program has returned its
\* error, holds no Program, and the tokens left are those the failed
\* statement left.
C32_StrictParsing ==
    /\ StatementParsed =>
          \A body \in {StatementBody} :
              (body.error.e = "none"
               /\ parser_peek(body.parser).kind # "Semicolon") =>
                  /\ StatementResult.error.e = "MissingToken"
                  /\ StatementResult.error.expected = Token("Semicolon")
                  /\ StatementResult.error.actual = parser_peek(body.parser)
                  /\ StatementResult.expr = <<>>
    /\ status = "error" =>
          /\ StatementParsed
          /\ StatementResult.error.e # "none"
          /\ err = StatementResult.error
          /\ the_program = <<>>
          /\ parser = StatementResult.parser

\* C39: parse_program returns on every finite token stream: a call of
\* statement() that returns a statement has left fewer tokens than it was
\* given, a block or an argument list that meets the end of the tokens
\* returns an error, and the parser ends with a Program or a ParsingError.
C39_ParseProgramTerminates ==
    /\ [][(status = "running" /\ status' = "running") =>
              Len(parser'.tokens) < Len(parser.tokens)]_vars
    /\ (status = "running") ~> (status \in {"done", "error"})

\* `{ a ;` has met the end of the tokens inside the block: an error.
C39_Witness ==
    /\ prog.kind = "tokens"
    /\ prog.tokens = <<Token("LeftCurly"), TokenIdentifier(Va), Token("Semicolon")>>
    /\ status = "error"
    /\ err.e = "MissingToken"
    /\ err.expected = Token("RightCurly")
    /\ parser.tokens = <<>>

(***************************************************************************)
(* Properties of the constant pool (SpecPool)                              *)
(***************************************************************************)

\* C12: the pool of a chunk builder never holds two equal values;
\* add_constant(v) returns the index of the equal entry and leaves the pool
\* unchanged when there is one, else appends v and returns the new last index;
\* the entries added before stay where they were.
C12_PoolHasNoEqualValues ==
    /\ \A i, j \in 1..Len(cs.constants) :
          ValueEq(cs.constants[i], cs.constants[j]) => i = j
    /\ last.op = "add_constant" =>
          /\ SubSeq(cs.constants, 1, Len(last.before)) = last.before
          /\ last.idx < Len(cs.constants)
          /\ ValueEq(cs.constants[last.idx + 1], last.value)
          /\ IF \E i \in 1..Len(last.before) : ValueEq(last.before[i], last.value)
             THEN /\ cs.constants = last.before
                  /\ ValueEq(last.before[last.idx + 1], last.value)
             ELSE /\ cs.constants = Append(last.before, last.value)
                  /\ last.idx = Len(cs.constants) - 1

\* C35: the entry at the index that add_constant(v) returns is v itself:
\* for a Function the same name, arity and chunk.
C35_PoolRoundTrip ==
    last.op = "add_constant" => cs.constants[last.idx + 1] = last.value

\* A value equal to an entry that is not the last one was added again.
C12_Witness ==
    /\ last.op = "add_constant"
    /\ cs.constants = last.before
    /\ Len(cs.constants) >= 3
    /\ last.idx = 1

(***************************************************************************)
(* Properties of jumps (SpecChunk)                                         *)
(***************************************************************************)

\* The frame is at a Jump, or at a JumpIfFalse that finds false on the stack.
AtTakenJump ==
    /\ HasOp
    /\ \/ CurOp.op = "Jump"
       \/ /\ CurOp.op = "JumpIfFalse"
          /\ stack # <<>>
          /\ Top(stack) = Bool(FALSE)

\* C19: a Jump, or a JumpIfFalse that is taken, whose offset would make the
\* ip of the frame negative returns IllegalJump and leaves the ip where it
\* was, past the jump; otherwise it adds the offset; the ip is never
\* negative.
C19_IllegalJump ==
    [][AtTakenJump =>
          /\ IF Top(frames).ip + 1 + CurOp.arg < 0
             THEN /\ status' = "error"
                  /\ err' = [e |-> "IllegalJump", ip |-> Top(frames).ip + 1,
                             offset |-> CurOp.arg]
                  /\ Top(frames').ip = Top(frames).ip + 1
             ELSE /\ status' = "running"
                  /\ Top(frames').ip = Top(frames).ip + 1 + CurOp.arg
          /\ Top(frames').ip >= 0]_vars

\* A JumpIfFalse at address 1 with offset -3 found false and was refused.
C19_Witness ==
    /\ last.op = Op1("JumpIfFalse", -3)
    /\ status = "error"
    /\ err = [e |-> "IllegalJump", ip |-> 2, offset |-> -3]
    /\ Top(frames).ip = 2

(***************************************************************************)
(* Properties of a short stack (SpecStack)                                 *)
(***************************************************************************)

\* The values the instruction last executed takes from the stack.
Taken(op) ==
    CASE op.op = "Call" -> op.arg + 1
      [] op.op \in {"Add", "Array"} -> 2
      [] op.op \in {"Pop", "Not", "Print"} -> 1
      [] OTHER -> 0

\* C34: an instruction that takes more values than the stack holds -
\* Call(n) on fewer than n + 1, a pop on none - returns StackExhausted; the
\* machine never aborts on the underflow.
C34_StackExhausted ==
    /\ Len(last.stack) < Taken(last.op) =>
          /\ status = "error"
          /\ err = VmError("StackExhausted")
    /\ status # "panic"

(***************************************************************************)
(* Properties of indexing (SpecIndex)                                      *)
(***************************************************************************)

Indexable(v) == v.t \in {"Text", "Array", "ArrayRef"}

\* The elements of an indexable value: the characters of a Text, the items
\* of an array.
Elements(heap_, v) ==
    CASE v.t = "Text" -> [i \in 1..Len(v.s) |-> Text(<<v.s[i]>>)]
      [] v.t = "Array" -> v.items
      [] v.t = "ArrayRef" -> heap_[v.ref]

\* C17: for a Text or array of length n and a Number index i, get yields the
\* element at i (of a Text, the one-character string at position i) iff
\* 0 <= i < n, IndexOutOfBounds{index: i, size: n} for i >= n and
\* IncorrectIndex for i < 0; an index that is not a number yields
\* InvalidIndexType; a value that is neither yields UnsupportedArrayType.
C17_IndexedRead ==
    last.op = "get" =>
        LET v == last.target
            i == last.index
            r == last.result
        IN  IF ~Indexable(v)
            THEN r.error = ArrayAccessError("UnsupportedArrayType")
            ELSE IF i.t # "Number"
            THEN r.error = ArrayAccessError("InvalidIndexType")
            ELSE IF i.n < 0
            THEN r.error = ArrayAccessError("IncorrectIndex")
            ELSE IF i.n >= Len(Elements(last.heap, v))
            THEN r.error = IndexOutOfBounds(i.n, Len(Elements(last.heap, v)))
            ELSE /\ r.error = NoError
                 /\ r.value = Elements(last.heap, v)[i.n + 1]

\* C18: assigning a value that is not a Text into a Text index fails with
\* UnsupportedArrayValueType of that value whatever the index is, in range,
\* out of range, negative or not a number; nothing is written.
C18_TextTakesOnlyText ==
    (last.op = "set" /\ last.target.t = "Text" /\ last.value.t # "Text") =>
        /\ last.result.error = UnsupportedArrayValueType(last.value)
        /\ heap = last.heap

\* A number was assigned to "ab" at index 3, which is out of range.
C18_Witness ==
    /\ last.op = "set"
    /\ last.target = Text(<<97, 98>>)
    /\ last.index = Number(3)
    /\ last.value = Number(7)
    /\ last.result.error = UnsupportedArrayValueType(Number(7))

\* A set of a Text value into a Text at an index within its characters that
\* returned a value.
TextWritten ==
    /\ last.op = "set"
    /\ last.target.t = "Text"
    /\ last.value.t = "Text"
    /\ last.index.t = "Number"
    /\ last.index.n >= 0
    /\ last.index.n < Len(last.target.s)
    /\ last.result.error = NoError

\* C37: a successful write of any Text v into a Text t of n characters at
\* index i, 0 <= i < n, returns a Text of n characters that equals t at
\* every position other than i, and leaves t and the arrays as they were.
C37_TextWriteSubstitutesOne ==
    TextWritten =>
        /\ last.result.value.t = "Text"
        /\ Len(last.result.value.s) = Len(last.target.s)
        /\ \A j \in 1..Len(last.target.s) :
              j # last.index.n + 1 => last.result.value.s[j] = last.target.s[j]
        /\ heap = last.heap

(***************************************************************************)
(* Properties of the scope table (SpecLocals)                              *)
(***************************************************************************)

\* The index of the innermost initialized local of a name, if any: the
\* greatest index among the initialized locals of that name.
InnermostInitialized(L, name) ==
    LET found == {i \in 1..Len(L.locals) :
                     L.locals[i].name = name /\ L.locals[i].initialized}
    IN  IF found = {} THEN <<>>
        ELSE <<(CHOOSE i \in found : \A j \in found : j <= i) - 1>>

\* The op a reference to a name is compiled to where the bindings are those
\* of L: the local's slot, else the global of that name (no op at all if the
\* name is not among the constants).
ReferenceTo(L, constants, name) ==
    IF InnermostInitialized(L, name) # <<>>
    THEN Op1("LoadLocal", InnermostInitialized(L, name)[1])
    ELSE LET k == find_constant(constants, Text(name), 1)
         IN  IF k = <<>> THEN Op0("None") ELSE Op1("LoadGlobal", k[1])

\* The step just taken compiled a declaration inside a block.
LocalDeclared ==
    /\ last.op = "variable_declaration"
    /\ last.before.locals.depth > 0
    /\ ~Failed(cs)

\* C8: in `let x = e;` inside a block a reference to x in e is compiled to
\* the binding of x visible before the declaration (an outer local, else the
\* global), never to the local being declared; after the declaration x
\* resolves to the new local.
C8_SelfShadow ==
    LocalDeclared =>
        /\ (last.value # <<>> /\ last.value[1].k = "Variable") =>
              cs.ops = last.before.ops
                       \o <<ReferenceTo(last.before.locals, cs.constants,
                                        last.value[1].name),
                            Op1("StoreLocal", Len(last.before.locals.locals))>>
        /\ resolve_local(cs.locals, last.name) = <<Len(last.before.locals.locals)>>
        /\ cs.locals.locals[Len(cs.locals.locals)].initialized

\* `let x = x;` was compiled in a block where an outer local x is visible:
\* the initializer loads the outer local.
C8_Witness ==
    /\ LocalDeclared
    /\ last.value = <<Variable(last.name)>>
    /\ InnermostInitialized(last.before.locals, last.name) # <<>>
    /\ cs.ops[Len(cs.ops) - 1]
          = Op1("LoadLocal", InnermostInitialized(last.before.locals, last.name)[1])
    /\ resolve_local(cs.locals, last.name)
          # InnermostInitialized(last.before.locals, last.name)

\* C9: resolve_local returns the index of the innermost initialized local of
\* the name, and after end_scope every name resolves as it did just before
\* the matching begin_scope.
C9_ScopeRestoration ==
    /\ \A name \in Names :
          resolve_local(cs.locals, name) = InnermostInitialized(cs.locals, name)
    /\ last.op = "end_scope" =>
          /\ cs.locals = last.scope[1].locals
          /\ \A name \in Names :
                resolve_local(cs.locals, name)
                    = InnermostInitialized(last.scope[1].locals, name)

\* The scope that ended had shadowed an outer local, which is visible again.
C9_Witness ==
    /\ last.op = "end_scope"
    /\ \E name \in Names :
          /\ resolve_local(cs.locals, name) # <<>>
          /\ InnermostInitialized(last.before.locals, name) # <<>>
          /\ resolve_local(cs.locals, name)
                # InnermostInitialized(last.before.locals, name)

\* C10: end_scope returns the number of locals added in the scope it closes,
\* removes exactly those locals, decrements the depth by one, and the
\* compiler emits that many Pop.
C10_EndScopePopsItsLocals ==
    last.op = "end_scope" =>
        /\ locals_in_scope(last.before.locals) = last.scope[1].added
        /\ cs.locals.locals
              = SubSeq(last.before.locals.locals, 1,
                       Len(last.before.locals.locals) - last.scope[1].added)
        /\ cs.locals.depth = last.before.locals.depth - 1
        /\ Len(cs.ops) = Len(last.before.ops) + last.scope[1].added
        /\ SubSeq(cs.ops, 1, Len(last.before.ops)) = last.before.ops
        /\ \A i \in (Len(last.before.ops) + 1)..Len(cs.ops) : cs.ops[i] = Op0("Pop")

\* A scope with a local of its own ended after an inner scope with a local
\* had ended inside it, and an outer local remains.
C10_Witness ==
    /\ last.op = "end_scope"
    /\ last.scope[1].added = 1
    /\ \E i \in 1..Len(last.before.ops) : last.before.ops[i] = Op0("Pop")
    /\ Len(cs.locals.locals) > 0
    /\ Len(cs.ops) = Len(last.before.ops) + 1

====
